---- MODULE Spec2Model ----
(***************************************************************************)
(* Shelf-life monitor (src/Monitor.py): the classification pipeline        *)
(*   calcular_vencimento_esperado -> calcular_status_tempo ->              *)
(*   sidebar threshold sliders -> calcular_status_percentual ->            *)
(*   identificar_divergencias                                              *)
(* Every statement of these functions is a whole-column operation whose    *)
(* value in a row depends on that row only, so the model follows one row   *)
(* of the DataFrame (df) through the script.                               *)
(*                                                                         *)
(* Absent values (NaN / NaT / None) are the empty tuple, a present value v *)
(* is <<v>>.  Timestamps are integers counting ticks since 1970-01-01,     *)
(* TicksPerDay ticks to the day, so that the fractional days produced by   *)
(* the month factor 30.4375 are exact.  Floating point rounding is not     *)
(* modelled: a percentage is the exact fraction <<num, den>>.              *)
(***************************************************************************)
EXTENDS Integers, Sequences, FiniteSets, TLC

\* --------------------------------------------------------------------------
\* Absent / present values
\* --------------------------------------------------------------------------
NA == <<>>
Some(v) == <<v>>
notna(x) == x # NA
isna(x) == x = NA
Val(x) == x[1]

\* --------------------------------------------------------------------------
\* Calendar
\* --------------------------------------------------------------------------
\* resolution of a timestamp: 1/16 day for the month factor 30.4375 = 487/16,
\* times 1/2 for a number of months with a half (TLC integers are 32 bits
\* wide, which a finer resolution would overflow)
TicksPerDay == 16 * 2

IsLeap(y) == (y % 4 = 0 /\ y % 100 # 0) \/ y % 400 = 0

LeapsBefore(y) == ((y - 1) \div 4) - ((y - 1) \div 100) + ((y - 1) \div 400)

\* days from 1970-01-01 to the first of January of year y
DaysBeforeYear(y) == 365 * (y - 1970) + LeapsBefore(y) - LeapsBefore(1970)

MonthLen(y, m) ==
    IF m = 2 THEN (IF IsLeap(y) THEN 29 ELSE 28)
    ELSE IF m \in {4, 6, 9, 11} THEN 30 ELSE 31

RECURSIVE DaysBeforeMonth(_, _)
DaysBeforeMonth(y, m) ==
    IF m = 1 THEN 0 ELSE DaysBeforeMonth(y, m - 1) + MonthLen(y, m - 1)

\* the midnight timestamp of a calendar date
Date(y, m, d) == (DaysBeforeYear(y) + DaysBeforeMonth(y, m) + (d - 1)) * TicksPerDay

\* Series.dt.year
YearOf(ts) ==
    LET day == ts \div TicksPerDay
        y0 == 1970 + (day \div 366)
    IN  CHOOSE y \in (y0 - 1)..(y0 + 1) :
            DaysBeforeYear(y) <= day /\ day < DaysBeforeYear(y + 1)

\* (a - b).dt.days : the days component of a Timedelta is its floor
DtDays(a, b) == IF isna(a) \/ isna(b) THEN NA ELSE Some((Val(a) - Val(b)) \div TicksPerDay)

\* --------------------------------------------------------------------------
\* parse_tempo_validade_to_days
\* --------------------------------------------------------------------------
\* A text is a tuple of one-character strings.
Digits == <<"0", "1", "2", "3", "4", "5", "6", "7", "8", "9">>
Upper == <<"A", "B", "C", "D", "E", "F", "G", "H", "I", "J", "K", "L", "M",
           "N", "O", "P", "Q", "R", "S", "T", "U", "V", "W", "X", "Y", "Z">>
Lower == <<"a", "b", "c", "d", "e", "f", "g", "h", "i", "j", "k", "l", "m",
           "n", "o", "p", "q", "r", "s", "t", "u", "v", "w", "x", "y", "z">>

IsDigit(c) == \E i \in 1..Len(Digits) : Digits[i] = c
DigitVal(c) == (CHOOSE i \in 1..Len(Digits) : Digits[i] = c) - 1
IsSpace(c) == c = " "
\* \w of the regular expressions: letters, digits, underscore
IsWordChar(c) ==
    \/ IsDigit(c)
    \/ \E i \in 1..Len(Lower) : Lower[i] = c \/ Upper[i] = c
    \/ c = "_"

\* str.lower
ToLower(s) ==
    [i \in 1..Len(s) |->
        IF \E k \in 1..Len(Upper) : Upper[k] = s[i]
        THEN Lower[CHOOSE k \in 1..Len(Upper) : Upper[k] = s[i]]
        ELSE s[i]]

\* str.strip
RECURSIVE Strip(_)
Strip(s) ==
    IF s = <<>> THEN s
    ELSE IF IsSpace(Head(s)) THEN Strip(Tail(s))
    ELSE IF IsSpace(s[Len(s)]) THEN Strip(SubSeq(s, 1, Len(s) - 1))
    ELSE s

\* the text with its decimal comma left in place
ReplaceComma_Identity(s) == s

\* s.replace(",", ".")
ReplaceComma(s) == [i \in 1..Len(s) |-> IF s[i] = "," THEN "." ELSE s[i]]

\* sub in s
Contains(s, sub) ==
    \E i \in 1..(Len(s) - Len(sub) + 1) : SubSeq(s, i, i + Len(sub) - 1) = sub

\* re.search(r"\bw\b", s) for a word w of word characters
ContainsWord(s, w) ==
    \E i \in 1..(Len(s) - Len(w) + 1) :
        /\ SubSeq(s, i, i + Len(w) - 1) = w
        /\ (i = 1 \/ ~IsWordChar(s[i - 1]))
        /\ (i + Len(w) - 1 = Len(s) \/ ~IsWordChar(s[i + Len(w)]))

\* the last index of the run of digits that starts at index i
RECURSIVE DigitRunEnd(_, _)
DigitRunEnd(s, i) ==
    IF i < Len(s) /\ IsDigit(s[i + 1]) THEN DigitRunEnd(s, i + 1) ELSE i

RECURSIVE DigitsValue(_)
DigitsValue(ds) ==
    IF ds = <<>> THEN 0
    ELSE 10 * DigitsValue(SubSeq(ds, 1, Len(ds) - 1)) + DigitVal(ds[Len(ds)])

RECURSIVE Pow10(_)
Pow10(k) == IF k = 0 THEN 1 ELSE 10 * Pow10(k - 1)

\* re.search(r"[-+]?\d+(\.\d+)?", s): the leftmost match, or NA.
\* A match is [sign, integer digits, fraction digits].
NumberMatch(s) ==
    LET starts(i) ==
            \/ IsDigit(s[i])
            \/ (s[i] \in {"+", "-"} /\ i < Len(s) /\ IsDigit(s[i + 1]))
        cand == {i \in 1..Len(s) : starts(i)}
    IN  IF cand = {} THEN NA
        ELSE
          LET i0 == CHOOSE i \in cand : \A j \in cand : i <= j
              signed == s[i0] \in {"+", "-"}
              d0 == IF signed THEN i0 + 1 ELSE i0
              d1 == DigitRunEnd(s, d0)
              hasFrac == d1 + 2 <= Len(s) /\ s[d1 + 1] = "." /\ IsDigit(s[d1 + 2])
              f1 == IF hasFrac THEN DigitRunEnd(s, d1 + 2) ELSE d1
          IN  Some([sign |-> IF signed /\ s[i0] = "-" THEN -1 ELSE 1,
                    int  |-> SubSeq(s, d0, d1),
                    frac |-> IF hasFrac THEN SubSeq(s, d1 + 2, f1) ELSE <<>>])

\* sixteenths of a day in a month (30.4375), a year (365) and a day
MesEmDias16 == 487
AnoEmDias == 365

\* float(m.group(0)) * factor, in ticks; factor16 is the factor in sixteenths.
\* Exact for the whole numbers and the halves.
NumTimes(m, factor16) ==
    LET mant == DigitsValue(m.int \o m.frac)
        scale == Pow10(Len(m.frac))
        n == m.sign * mant * factor16 * (TicksPerDay \div 16)
    IN  n \div scale

\* the parser with the year indicators tested before the month indicators
parse_tempo_validade_to_days_AnoPrimeiro(val) ==
    IF isna(val) THEN NA
    ELSE
      LET s0 == ToLower(Strip(Val(val)))
      IN  IF s0 = <<>> THEN NA
          ELSE
            LET s == ReplaceComma(s0)
                m == NumberMatch(s)
            IN  IF isna(m) THEN NA
                ELSE IF \/ Contains(s, <<"a", "n", "o">>)
                        \/ Contains(s, <<"a", "n", "o", "s">>)
                        \/ Contains(s, <<"y", "e", "a", "r">>)
                     THEN Some(NumTimes(Val(m), AnoEmDias * 16))
                ELSE IF Contains(s, <<"m", "e", "s">>) \/ ContainsWord(s, <<"m", "o">>)
                     THEN Some(NumTimes(Val(m), MesEmDias16))
                ELSE IF \/ Contains(s, <<"d", "i", "a">>)
                        \/ Contains(s, <<"d", "i", "a", "s">>)
                        \/ ContainsWord(s, <<"d">>)
                     THEN Some(NumTimes(Val(m), 16))
                ELSE NA

\* parse_tempo_validade_to_days: the number of days, in ticks, or NA (np.nan)
parse_tempo_validade_to_days(val) ==
    IF isna(val) THEN NA
    ELSE
      LET s0 == ToLower(Strip(Val(val)))
      IN  IF s0 = <<>> THEN NA
          ELSE
            LET s == ReplaceComma(s0)
                m == NumberMatch(s)
            IN  IF isna(m) THEN NA
                ELSE IF Contains(s, <<"m", "e", "s">>) \/ ContainsWord(s, <<"m", "o">>)
                     THEN Some(NumTimes(Val(m), MesEmDias16))
                ELSE IF \/ Contains(s, <<"a", "n", "o">>)
                        \/ Contains(s, <<"a", "n", "o", "s">>)
                        \/ Contains(s, <<"y", "e", "a", "r">>)
                     THEN Some(NumTimes(Val(m), AnoEmDias * 16))
                ELSE IF \/ Contains(s, <<"d", "i", "a">>)
                        \/ Contains(s, <<"d", "i", "a", "s">>)
                        \/ ContainsWord(s, <<"d">>)
                     THEN Some(NumTimes(Val(m), 16))
                ELSE NA

\* --------------------------------------------------------------------------
\* calcular_vencimento_esperado
\* --------------------------------------------------------------------------
\* (the dates of a row are parsed dates or NaT, on which safe_to_datetime is
\* the identity; an absent "Tempo de Validade" column is a column of NaN)

\* the mask without the test Dias_Validade > 0
calcular_vencimento_esperado_SemPositivo(r) ==
    LET dias == parse_tempo_validade_to_days(r.Tempo_de_Validade)
        mask == notna(r.Data_de_entrada) /\ notna(dias)
    IN  [r EXCEPT !.Dias_Validade = dias,
                  !.Venc_Esperado =
                      IF mask THEN Some(Val(r.Data_de_entrada) + Val(dias)) ELSE NA]

\* calcular_vencimento_esperado
calcular_vencimento_esperado(r) ==
    LET dias == parse_tempo_validade_to_days(r.Tempo_de_Validade)
        mask == notna(r.Data_de_entrada) /\ notna(dias) /\ Val(dias) > 0
    IN  [r EXCEPT !.Dias_Validade = dias,
                  !.Venc_Esperado =
                      IF mask THEN Some(Val(r.Data_de_entrada) + Val(dias)) ELSE NA]

\* --------------------------------------------------------------------------
\* np.select(condlist, choicelist, default): the choice of the first true
\* condition
\* --------------------------------------------------------------------------
np_select(conds, choices, default) ==
    IF \E i \in 1..Len(conds) : conds[i]
    THEN choices[CHOOSE i \in 1..Len(conds) :
                     conds[i] /\ \A j \in 1..(i - 1) : ~conds[j]]
    ELSE default

\* comparisons of a float column with a number: False on NaN
gt(x, n) == notna(x) /\ Val(x) > n
ge(x, n) == notna(x) /\ Val(x) >= n
lt(x, n) == notna(x) /\ Val(x) < n

\* --------------------------------------------------------------------------
\* calcular_status_tempo
\* --------------------------------------------------------------------------
SemValidade == "Sem Validade"
TempoBom == "Bom (>90 dias)"
TempoAtencao == "Atencao (30-90 dias)"
TempoCritico == "Critico (<30 dias)"

ANO_SEM_VENCIMENTO == 2070

\* mask_2070_original
Mask2070(d) == notna(d) /\ YearOf(Val(d)) = ANO_SEM_VENCIMENTO

\* "Data de vencimento" after the 2070 dates are set to NaT
VencimentoSem2070(r) ==
    IF Mask2070(r.Data_de_vencimento) THEN NA ELSE r.Data_de_vencimento

\* Venc_Analise without the last assignment (a 2070 original falls back)
VencAnalise_Fallback(r) ==
    LET venc == VencimentoSem2070(r)
        a0 == IF notna(venc) THEN venc ELSE r.Venc_Esperado
    IN  IF Mask2070(a0) THEN NA ELSE a0

\* Venc_Analise without the 2070 check of the expected date
VencAnalise_Esperado2070(r) ==
    LET venc == VencimentoSem2070(r)
        a0 == IF notna(venc) THEN venc ELSE r.Venc_Esperado
    IN  IF Mask2070(r.Data_de_vencimento) THEN NA ELSE a0

\* Venc_Analise
VencAnalise(r) ==
    LET venc == VencimentoSem2070(r)
        \* fillna(Venc_Esperado)
        a0 == IF notna(venc) THEN venc ELSE r.Venc_Esperado
        \* mask_2070_esp
        a1 == IF Mask2070(a0) THEN NA ELSE a0
    IN  \* a 2070 original never uses Venc_Esperado
        IF Mask2070(r.Data_de_vencimento) THEN NA ELSE a1

\* the conds with "Bom" from 90 days on
StatusTempoConds_Ge90(a, e, t) ==
    << isna(a) \/ isna(e),
       ge(t, 90),
       ge(t, 30),
       ge(t, 0) >>

\* conds of Status_Tempo, over Venc_Analise a, Data de entrada e and
\* Dias_Validade_Total t
StatusTempoConds(a, e, t) ==
    << isna(a) \/ isna(e),
       gt(t, 90),
       ge(t, 30),
       ge(t, 0) >>

StatusTempoChoices == <<SemValidade, TempoBom, TempoAtencao, TempoCritico>>

\* calcular_status_tempo with the total life counted from hoje
calcular_status_tempo_TotalDesdeHoje(r, hoje) ==
    LET analise == VencAnalise(r)
        total == DtDays(analise, Some(hoje))
    IN  [r EXCEPT !.Data_de_vencimento = VencimentoSem2070(r),
                  !.Venc_Analise = analise,
                  !.Dias_Restantes = DtDays(analise, Some(hoje)),
                  !.Dias_Validade_Total = total,
                  !.Status_Tempo =
                      np_select(StatusTempoConds(analise, r.Data_de_entrada, total),
                                StatusTempoChoices, SemValidade)]

calcular_status_tempo(r, hoje) ==
    LET analise == VencAnalise(r)
        total == DtDays(analise, r.Data_de_entrada)
    IN  [r EXCEPT !.Data_de_vencimento = VencimentoSem2070(r),
                  !.Venc_Analise = analise,
                  !.Dias_Restantes = DtDays(analise, Some(hoje)),
                  !.Dias_Validade_Total = total,
                  !.Status_Tempo =
                      np_select(StatusTempoConds(analise, r.Data_de_entrada, total),
                                StatusTempoChoices, SemValidade)]

\* --------------------------------------------------------------------------
\* calcular_status_percentual
\* --------------------------------------------------------------------------
DentroDoEsperado == "Dentro do esperado"
Atencao == "Atencao"
ForaDoEsperado == "Fora do esperado"

DEFAULT_THRESHOLD_GOOD == 90
DEFAULT_THRESHOLD_WARN == 50

\* Dias_Esperados (in ticks)
DiasEsperados(r) ==
    LET falt == isna(r.Dias_Validade) \/ Val(r.Dias_Validade) <= 0
        d == DtDays(r.Venc_Analise, r.Data_de_entrada)
    IN  IF falt THEN (IF isna(d) THEN NA ELSE Some(Val(d) * TicksPerDay))
        ELSE r.Dias_Validade

\* Validade_Real (days)
ValidadeReal(r) == DtDays(r.Data_de_vencimento, r.Data_de_entrada)

\* clip that applies the lower limit only
Clip_LowerOnly(p, lower, upper) ==
    IF isna(p) THEN NA
    ELSE IF Val(p)[1] < lower * Val(p)[2] THEN Some(<<lower * Val(p)[2], Val(p)[2]>>)
    ELSE p

\* Series.clip(lower, upper) of the fraction p = <<num, den>>, den > 0
Clip(p, lower, upper) ==
    IF isna(p) THEN NA
    ELSE LET num == Val(p)[1]
             den == Val(p)[2]
         IN  IF num < lower * den THEN Some(<<lower * den, den>>)
             ELSE IF num > upper * den THEN Some(<<upper * den, den>>)
             ELSE p

\* Pct_Restante over Dias_Esperados instead of Dias_Validade
PctRestante_SobreEsperados(r) ==
    LET real == DtDays(r.Data_de_vencimento, r.Data_de_entrada)
        esp == DiasEsperados(r)
        mask_calc == notna(real) /\ notna(esp) /\ Val(esp) > 0
        pct == IF mask_calc
               THEN Some(<<Val(real) * TicksPerDay * 100, Val(esp)>>)
               ELSE NA
    IN  Clip(pct, 0, 200)

\* Pct_Restante: (Validade_Real / Dias_Validade) * 100, clipped
PctRestante(r) ==
    LET real == ValidadeReal(r)
        mask_calc == notna(real) /\ notna(r.Dias_Validade) /\ Val(r.Dias_Validade) > 0
        pct == IF mask_calc
               THEN Some(<<Val(real) * TicksPerDay * 100, Val(r.Dias_Validade)>>)
               ELSE NA
    IN  Clip(pct, 0, 200)

\* comparisons of a percentage with a threshold: False on NaN
PctGe(p, n) == notna(p) /\ Val(p)[1] >= n * Val(p)[2]
PctLt(p, n) == notna(p) /\ Val(p)[1] < n * Val(p)[2]

\* Status with "Dentro do esperado" only above limiar_bom
StatusPercentual_AcimaDoLimiar(pct, limiar_bom, limiar_atencao) ==
    LET s0 == SemValidade
        s1 == IF notna(pct) /\ Val(pct)[1] > limiar_bom * Val(pct)[2]
              THEN DentroDoEsperado ELSE s0
        s2 == IF PctGe(pct, limiar_atencao) /\ PctLt(pct, limiar_bom) THEN Atencao ELSE s1
        s3 == IF PctLt(pct, limiar_atencao) THEN ForaDoEsperado ELSE s2
    IN  s3

\* Status: three conditional assignments over the default, in sequence
StatusPercentual(pct, limiar_bom, limiar_atencao) ==
    LET s0 == SemValidade
        s1 == IF PctGe(pct, limiar_bom) THEN DentroDoEsperado ELSE s0
        s2 == IF PctGe(pct, limiar_atencao) /\ PctLt(pct, limiar_bom) THEN Atencao ELSE s1
        s3 == IF PctLt(pct, limiar_atencao) THEN ForaDoEsperado ELSE s2
    IN  s3

\* calcular_status_percentual without the first assignment of Status
calcular_status_percentual_SemPadrao(r, hoje, limiar_bom, limiar_atencao) ==
    LET pct == PctRestante(r)
    IN  [r EXCEPT !.Dias_Esperados = DiasEsperados(r),
                  !.Validade_Real = ValidadeReal(r),
                  !.Pct_Restante = pct,
                  !.Status = IF isna(pct) THEN ""
                             ELSE StatusPercentual(pct, limiar_bom, limiar_atencao)]

\* (Dias_Restantes is left as calcular_status_tempo computed it: the column
\* exists whenever the script calls this function)
calcular_status_percentual(r, hoje, limiar_bom, limiar_atencao) ==
    LET pct == PctRestante(r)
    IN  [r EXCEPT !.Dias_Esperados = DiasEsperados(r),
                  !.Validade_Real = ValidadeReal(r),
                  !.Pct_Restante = pct,
                  !.Status = StatusPercentual(pct, limiar_bom, limiar_atencao)]

\* --------------------------------------------------------------------------
\* identificar_divergencias
\* --------------------------------------------------------------------------
SemTempoCadastrado == "Sem Tempo de Validade Cadastrado"
SemDataReal == "Sem Data Real no SQ00"
SemTempoParaCalcular == "Sem Tempo de Validade para Calcular"
MaterialVencido == "Material Vencido"
DesvioCritico == "Desvio Percentual Critico"

\* Desvio_Dias
DesvioDias(r) == DtDays(r.Data_de_vencimento, r.Venc_Esperado)

\* the conds with problems 3 and 4 appended in the other order
DivergenciaConds_VencidoAntes(r) ==
    << isna(r.Tempo_de_Validade)
           /\ (notna(r.Data_de_vencimento) \/ notna(r.Venc_Esperado)),
       isna(r.Data_de_vencimento) /\ notna(r.Venc_Esperado),
       lt(r.Dias_Restantes, 0),
       notna(r.Data_de_vencimento) /\ isna(r.Venc_Esperado),
       r.Status = ForaDoEsperado >>

DivergenciaConds(r) ==
    << isna(r.Tempo_de_Validade)
           /\ (notna(r.Data_de_vencimento) \/ notna(r.Venc_Esperado)),
       isna(r.Data_de_vencimento) /\ notna(r.Venc_Esperado),
       notna(r.Data_de_vencimento) /\ isna(r.Venc_Esperado),
       lt(r.Dias_Restantes, 0),
       r.Status = ForaDoEsperado >>

DivergenciaChoices ==
    <<SemTempoCadastrado, SemDataReal, SemTempoParaCalcular, MaterialVencido,
      DesvioCritico>>

identificar_divergencias(r) ==
    LET tipo == np_select(DivergenciaConds(r), DivergenciaChoices, "")
    IN  [r EXCEPT !.Desvio_Dias = DesvioDias(r),
                  !.Tipo_Problema = tipo,
                  !.Tem_Problema = (tipo # "")]

\* --------------------------------------------------------------------------
\* Sidebar: threshold sliders and their validation
\* --------------------------------------------------------------------------
\* the values of st.slider(min_value, max_value, step)
SliderValues(min_value, max_value, step) ==
    {v \in min_value..max_value : (v - min_value) % step = 0}

LimiarBomValues == SliderValues(50, 95, 5)
LimiarAtencaoValues == SliderValues(5, 69, 5)

\* the validation that warns and keeps the pair
ValidarLimiares_SemCorrecao(bom, atencao) == <<bom, atencao>>

\* the validation after the sliders: the pair used from there on
ValidarLimiares(bom, atencao) ==
    IF atencao >= bom
    THEN <<bom, IF bom - 30 > 0 THEN bom - 30 ELSE 0>>
    ELSE <<bom, atencao>>

\* --------------------------------------------------------------------------
\* Inputs
\* --------------------------------------------------------------------------
\* number of days the clock may advance over the reruns of the script
MaxDiasDecorridos == 1

Entrada0 == Date(2024, 1, 1)
Hoje0 == Date(2024, 6, 1)

Entradas == {NA, Some(Entrada0)}

\* real expiration dates, as days after Entrada0, and around the year 2070
VencOffsets == {-5, 0, 29, 30, 31, 50, 90, 91, 250}
Vencimentos ==
    {NA} \cup {Some(Entrada0 + k * TicksPerDay) : k \in VencOffsets}
         \cup {Some(Date(2069, 12, 31)), Some(Date(2070, 1, 1)), Some(Date(2070, 12, 31))}

Txt12Meses == <<"1", "2", " ", "m", "e", "s", "e", "s">>
Txt100Dias == <<"1", "0", "0", " ", "d", "i", "a", "s">>
Txt47Anos == <<"4", "7", " ", "A", "n", "o", "s">>
Txt0Dias == <<"0", " ", "d", "i", "a", "s">>
TxtSemNumero == <<"m", "e", "s", "e", "s">>
TxtUmMesEMeio == <<" ", "1", ",", "5", " ", "m", "e", "s">>

Tempos ==
    {NA, Some(Txt12Meses), Some(Txt100Dias), Some(Txt47Anos), Some(Txt0Dias),
     Some(TxtSemNumero), Some(TxtUmMesEMeio)}

\* a row of the integrated DataFrame as carregar_dados returns it; the
\* columns the pipeline adds later are absent
Row(entrada, vencimento, tempo) ==
    [Data_de_entrada |-> entrada,
     Data_de_vencimento |-> vencimento,
     Tempo_de_Validade |-> tempo,
     Dias_Validade |-> NA,
     Venc_Esperado |-> NA,
     Venc_Analise |-> NA,
     Dias_Restantes |-> NA,
     Dias_Validade_Total |-> NA,
     Status_Tempo |-> "",
     Dias_Esperados |-> NA,
     Validade_Real |-> NA,
     Pct_Restante |-> NA,
     Status |-> "",
     Desvio_Dias |-> NA,
     Tipo_Problema |-> "",
     Tem_Problema |-> FALSE]

RawRows == {Row(e, v, t) : e \in Entradas, v \in Vencimentos, t \in Tempos}

\* --------------------------------------------------------------------------
\* The script
\* --------------------------------------------------------------------------
VARIABLES
    pc,              \* position of the script run
    raw,             \* the row carregar_dados returns (cached between runs)
    df,              \* the row of df
    hoje,            \* hoje
    slider_bom,      \* widget state of the "Limiar Bom" slider
    slider_atencao,  \* widget state of the "Limiar de Atencao" slider
    limiar_bom,      \* limiar_bom of this run, NA before the sidebar
    limiar_atencao,  \* limiar_atencao of this run, NA before the sidebar
    reset_clicked    \* this run was started by the "Restaurar Padroes" button

varsScript == <<pc, raw, df, hoje, slider_bom, slider_atencao, limiar_bom,
                limiar_atencao, reset_clicked>>

\* carregar_dados and gerar_auditoria over whole tables
VARIABLES
    cpc,             \* position in carregar_dados / the audit run
    mb51,            \* the MB51 sheet (movements)
    sq00,            \* the SQ00 sheet (real expiration dates)
    forn,            \* the suppliers sheet (declared shelf life)
    sq00_dedup,      \* sq00 of carregar_dados after its duplicates are removed
    tabela,          \* df, every row of it
    auditoria        \* the result of gerar_auditoria

varsCarga == <<cpc, mb51, sq00, forn, sq00_dedup, tabela, auditoria>>

\* parse_tempo_validade_to_days and calcular_vencimento_esperado on one text
VARIABLES
    ppc,             \* position of the run
    val,             \* the "Tempo de Validade" text
    entrada,         \* the "Data de entrada"
    linha            \* the row calcular_vencimento_esperado returns

varsParser == <<ppc, val, entrada, linha>>

\* calcular_status_timeline
VARIABLES
    tpc,             \* position of the run
    timeline,        \* the timeline DataFrame
    hoje_timeline    \* hoje of the timeline tab

varsTimeline == <<tpc, timeline, hoje_timeline>>

\* apply_filters
VARIABLES
    fpc,             \* position of the run
    filter_state,    \* st.session_state.filter_state
    fdf,             \* the DataFrame handed to apply_filters
    filtrado         \* what apply_filters returned

varsFiltros == <<fpc, filter_state, fdf, filtrado>>

\* the scrap / logitransfers blocklist step of the main script and of the
\* timeline tab
VARIABLES
    bpc,                          \* position of the run
    hide_scrap,                   \* st.session_state.get('hide_scrap', False)
    hide_logitransfers,           \* st.session_state.get('hide_logitransfers', False)
    show_scrap_timeline,          \* st.session_state.show_scrap_timeline
    show_logitransfers_timeline,  \* st.session_state.show_logitransfers_timeline
    bdf,                          \* the DataFrame before the step
    df_bloqueado                  \* the DataFrame after the step

varsBloqueio == <<bpc, hide_scrap, hide_logitransfers, show_scrap_timeline,
                  show_logitransfers_timeline, bdf, df_bloqueado>>

\* the sidebar, has_active_filters and clear_all_filters
VARIABLES
    lpc,             \* position of the run
    session_state,   \* the widget keys of st.session_state
    filtros_ativos,  \* what has_active_filters() returned in the last run
    widget_por_chave \* the Streamlit build identifies a keyed widget by its key

varsLimpeza == <<lpc, session_state, filtros_ativos, widget_por_chave>>

\* the critical-items area of the timeline tab
VARIABLES
    kpc,                      \* the last button clicked
    critical_selected_kpis,   \* st.session_state.critical_selected_kpis
    critical_items_expanded,  \* st.session_state.critical_items_expanded
    df_critical_items,        \* the critical items
    df_critical_display       \* the rows of the expanded view

varsCriticos == <<kpc, critical_selected_kpis, critical_items_expanded,
                  df_critical_items, df_critical_display>>

\* the main flow of Atualizar.py
VARIABLES
    apc,             \* position in the main flow
    session,         \* what abrir_sap_e_fazer_logon returned
    tentativa,       \* the attempt of the close loop
    fechados,        \* mb51_fechado, sq00_fechado, venc_fechado of each attempt
    chamadas         \* the steps called so far, in order

varsAtualizar == <<apc, session, tentativa, fechados, chamadas>>

varsDemais == <<varsBloqueio, varsLimpeza, varsCriticos, varsAtualizar>>

vars == <<varsScript, varsCarga, varsParser, varsTimeline, varsFiltros, varsDemais>>

\* a part of the program that a specification leaves out stays idle
CargaParada ==
    cpc = "parado" /\ mb51 = <<>> /\ sq00 = <<>> /\ forn = <<>>
        /\ sq00_dedup = <<>> /\ tabela = <<>> /\ auditoria = <<>>
ParserParado == ppc = "parado" /\ val = <<>> /\ entrada = <<>> /\ linha = <<>>
TimelineParada == tpc = "parado" /\ timeline = <<>> /\ hoje_timeline = 0
FiltrosParados ==
    fpc = "parado" /\ filter_state = <<>> /\ fdf = <<>> /\ filtrado = <<>>
BloqueioParado ==
    /\ bpc = "parado" /\ hide_scrap = FALSE /\ hide_logitransfers = FALSE
    /\ show_scrap_timeline = FALSE /\ show_logitransfers_timeline = FALSE
    /\ bdf = <<>> /\ df_bloqueado = <<>>
LimpezaParada ==
    /\ lpc = "parado" /\ session_state = <<>> /\ filtros_ativos = FALSE
    /\ widget_por_chave = FALSE
CriticosParados ==
    /\ kpc = "parado" /\ critical_selected_kpis = <<>>
    /\ critical_items_expanded = FALSE
    /\ df_critical_items = <<>> /\ df_critical_display = <<>>
AtualizarParado ==
    /\ apc = "parado" /\ session = FALSE /\ tentativa = 0
    /\ fechados = <<>> /\ chamadas = <<>>
DemaisParados == BloqueioParado /\ LimpezaParada /\ CriticosParados /\ AtualizarParado
ScriptParado ==
    /\ pc = "parado" /\ raw = <<>> /\ df = <<>> /\ hoje = 0
    /\ slider_bom = 0 /\ slider_atencao = 0
    /\ limiar_bom = <<>> /\ limiar_atencao = <<>> /\ reset_clicked = FALSE

Init ==
    /\ pc = "inicio"
    /\ raw \in RawRows
    /\ df = raw
    /\ hoje = Hoje0
    /\ slider_bom = DEFAULT_THRESHOLD_GOOD
    /\ slider_atencao = DEFAULT_THRESHOLD_WARN
    /\ limiar_bom = NA
    /\ limiar_atencao = NA
    /\ reset_clicked = FALSE
    /\ CargaParada /\ ParserParado /\ TimelineParada /\ FiltrosParados /\ DemaisParados

\* df = carregar_dados(); hoje = pd.Timestamp(datetime.now().date())
CarregarDados ==
    /\ pc = "inicio"
    /\ df' = raw
    /\ \E h \in {hoje, hoje + TicksPerDay} :
           /\ h <= Hoje0 + MaxDiasDecorridos * TicksPerDay
           /\ hoje' = h
    /\ pc' = "carregado"
    /\ UNCHANGED <<raw, slider_bom, slider_atencao, limiar_bom, limiar_atencao,
                   reset_clicked>>
    /\ UNCHANGED <<varsCarga, varsParser, varsTimeline, varsFiltros, varsDemais>>

CalcularVencimentoEsperado ==
    /\ pc = "carregado"
    /\ df' = calcular_vencimento_esperado(df)
    /\ pc' = "esperado"
    /\ UNCHANGED <<raw, hoje, slider_bom, slider_atencao, limiar_bom,
                   limiar_atencao, reset_clicked>>
    /\ UNCHANGED <<varsCarga, varsParser, varsTimeline, varsFiltros, varsDemais>>

CalcularStatusTempo ==
    /\ pc = "esperado"
    /\ df' = calcular_status_tempo(df, hoje)
    /\ pc' = "tempo"
    /\ UNCHANGED <<raw, hoje, slider_bom, slider_atencao, limiar_bom,
                   limiar_atencao, reset_clicked>>
    /\ UNCHANGED <<varsCarga, varsParser, varsTimeline, varsFiltros, varsDemais>>

\* the sidebar: the sliders return their widget state, the pair is validated
\* (the preview classifies a copy of df with the validated pair and leaves df
\* alone); a run started by "Restaurar Padroes" assigns the defaults to the
\* locals and reruns at once, the sliders keeping their widget state
Sidebar ==
    /\ pc = "tempo"
    /\ LET v == ValidarLimiares(slider_bom, slider_atencao)
       IN  IF reset_clicked
           THEN /\ pc' = "inicio"
                /\ limiar_bom' = NA
                /\ limiar_atencao' = NA
                /\ reset_clicked' = FALSE
                /\ df' = raw
           ELSE /\ pc' = "sidebar"
                /\ limiar_bom' = Some(v[1])
                /\ limiar_atencao' = Some(v[2])
                /\ UNCHANGED <<reset_clicked, df>>
    /\ UNCHANGED <<raw, hoje, slider_bom, slider_atencao>>
    /\ UNCHANGED <<varsCarga, varsParser, varsTimeline, varsFiltros, varsDemais>>

CalcularStatusPercentual ==
    /\ pc = "sidebar"
    /\ df' = calcular_status_percentual(df, hoje, Val(limiar_bom), Val(limiar_atencao))
    /\ pc' = "percentual"
    /\ UNCHANGED <<raw, hoje, slider_bom, slider_atencao, limiar_bom,
                   limiar_atencao, reset_clicked>>
    /\ UNCHANGED <<varsCarga, varsParser, varsTimeline, varsFiltros, varsDemais>>

IdentificarDivergencias ==
    /\ pc = "percentual"
    /\ df' = identificar_divergencias(df)
    /\ pc' = "divergencias"
    /\ UNCHANGED <<raw, hoje, slider_bom, slider_atencao, limiar_bom,
                   limiar_atencao, reset_clicked>>
    /\ UNCHANGED <<varsCarga, varsParser, varsTimeline, varsFiltros, varsDemais>>

\* the script starts again from the top
Rerun ==
    /\ pc' = "inicio"
    /\ df' = raw
    /\ limiar_bom' = NA
    /\ limiar_atencao' = NA

\* the user moves one of the two sliders: the widget state changes and the
\* script reruns
MoverSliderBom ==
    /\ pc = "divergencias"
    /\ \E v \in LimiarBomValues \ {slider_bom} : slider_bom' = v
    /\ Rerun
    /\ UNCHANGED <<raw, hoje, slider_atencao, reset_clicked>>
    /\ UNCHANGED <<varsCarga, varsParser, varsTimeline, varsFiltros, varsDemais>>

MoverSliderAtencao ==
    /\ pc = "divergencias"
    /\ \E v \in LimiarAtencaoValues \ {slider_atencao} : slider_atencao' = v
    /\ Rerun
    /\ UNCHANGED <<raw, hoje, slider_bom, reset_clicked>>
    /\ UNCHANGED <<varsCarga, varsParser, varsTimeline, varsFiltros, varsDemais>>

\* the user presses "Restaurar Padroes"
ClicarRestaurarPadroes ==
    /\ pc = "divergencias"
    /\ reset_clicked' = TRUE
    /\ Rerun
    /\ UNCHANGED <<raw, hoje, slider_bom, slider_atencao>>
    /\ UNCHANGED <<varsCarga, varsParser, varsTimeline, varsFiltros, varsDemais>>

Next ==
    \/ CarregarDados
    \/ CalcularVencimentoEsperado
    \/ CalcularStatusTempo
    \/ Sidebar
    \/ CalcularStatusPercentual
    \/ IdentificarDivergencias
    \/ MoverSliderBom
    \/ MoverSliderAtencao
    \/ ClicarRestaurarPadroes

Spec == Init /\ [][Next]_vars

TypeOK ==
    /\ pc \in {"inicio", "carregado", "esperado", "tempo", "sidebar",
                "percentual", "divergencias"}
    /\ reset_clicked \in BOOLEAN
    /\ slider_bom \in LimiarBomValues
    /\ slider_atencao \in LimiarAtencaoValues

\* --------------------------------------------------------------------------
\* Properties of calcular_status_tempo
\* --------------------------------------------------------------------------
\* df carries the columns of calcular_status_tempo
AposTempo == pc \in {"tempo", "sidebar", "percentual", "divergencias"}

\* total shelf life in whole days, from the two dates of the row
VidaTotal(r) == (Val(r.Venc_Analise) - Val(r.Data_de_entrada)) \div TicksPerDay

DatasPresentes(r) == r.Venc_Analise # <<>> /\ r.Data_de_entrada # <<>>

\* C1: after calcular_status_tempo the Status_Tempo of a row is one of the
\* four values, and it is "Sem Validade" if and only if Venc_Analise or
\* Data de entrada is absent.
C1_StatusTempoUnknownIffAbsent ==
    AposTempo =>
        /\ df.Status_Tempo \in {TempoBom, TempoAtencao, TempoCritico, SemValidade}
        /\ (df.Status_Tempo = SemValidade <=> ~DatasPresentes(df))

\* C2: a row with both dates present and a total shelf life under 30 days,
\* negative spans included, is "Critico".
C2_Under30IsCritical ==
    (AposTempo /\ DatasPresentes(df) /\ VidaTotal(df) < 30)
        => df.Status_Tempo = TempoCritico

\* C3: with both dates present, Status_Tempo is "Bom" exactly when the total
\* shelf life exceeds 90 days and "Atencao" exactly when it is within 30..90.
C3_GoodAndWarningBoundaries ==
    (AposTempo /\ DatasPresentes(df)) =>
        /\ df.Dias_Validade_Total = <<VidaTotal(df)>>
        /\ (df.Status_Tempo = TempoBom <=> VidaTotal(df) > 90)
        /\ (df.Status_Tempo = TempoAtencao
               <=> (30 <= VidaTotal(df) /\ VidaTotal(df) <= 90))

\* a row on the boundary: exactly 90 days of total shelf life, "Atencao"
C3_Witness ==
    /\ AposTempo
    /\ DatasPresentes(df)
    /\ VidaTotal(df) = 90
    /\ df.Status_Tempo = TempoAtencao

\* the row was loaded with a real expiration date in the year 2070
Original2070 ==
    raw.Data_de_vencimento # <<>> /\ YearOf(raw.Data_de_vencimento[1]) = 2070

\* C4: a row whose original real expiration date is in 2070 has no
\* Venc_Analise and is "Sem Validade", with or without a Venc_Esperado.
C4_SentinelNeverFallsBack ==
    (AposTempo /\ Original2070) =>
        /\ df.Venc_Analise = <<>>
        /\ df.Status_Tempo = SemValidade

\* a 2070 row for which an expected expiration was computed
C4_Witness ==
    /\ AposTempo
    /\ Original2070
    /\ df.Venc_Esperado # <<>>
    /\ df.Venc_Analise = <<>>

\* C5: a row whose real expiration date is not a 2070 date analyses the real
\* date when present, else the expected date when present and not in 2070,
\* else nothing.
C5_AnalysisExpirationChoice ==
    (AposTempo /\ ~Original2070) =>
        df.Venc_Analise =
            IF raw.Data_de_vencimento # <<>> THEN raw.Data_de_vencimento
            ELSE IF df.Venc_Esperado # <<>> /\ YearOf(df.Venc_Esperado[1]) # 2070
                 THEN df.Venc_Esperado
            ELSE <<>>

\* no real date and an expected date that falls in 2070: nothing to analyse
C5_Witness ==
    /\ AposTempo
    /\ raw.Data_de_vencimento = <<>>
    /\ df.Venc_Esperado # <<>>
    /\ YearOf(df.Venc_Esperado[1]) = 2070
    /\ df.Venc_Analise = <<>>

\* --------------------------------------------------------------------------
\* Properties of calcular_status_percentual
\* --------------------------------------------------------------------------
\* df carries the columns of calcular_status_percentual
AposPercentual == pc \in {"percentual", "divergencias"}

\* real shelf life in whole days, from the two dates of the row
VidaReal(r) == (r.Data_de_vencimento[1] - r.Data_de_entrada[1]) \div TicksPerDay

\* the row has what the percentage needs
PctCalculavel(r) ==
    /\ r.Data_de_entrada # <<>>
    /\ r.Data_de_vencimento # <<>>
    /\ r.Dias_Validade # <<>>
    /\ r.Dias_Validade[1] > 0

\* C6: Pct_Restante is absent or within [0, 200]; a real shelf life of more
\* than twice the declared one gives 200, a negative one gives 0.
C6_PctWithin0And200 ==
    AposPercentual =>
        /\ \/ df.Pct_Restante = <<>>
           \/ /\ df.Pct_Restante[1][2] > 0
              /\ 0 <= df.Pct_Restante[1][1]
              /\ df.Pct_Restante[1][1] <= 200 * df.Pct_Restante[1][2]
        /\ (PctCalculavel(df) /\ VidaReal(df) * TicksPerDay > 2 * df.Dias_Validade[1])
               => df.Pct_Restante[1][1] = 200 * df.Pct_Restante[1][2]
        /\ (PctCalculavel(df) /\ VidaReal(df) < 0)
               => df.Pct_Restante[1][1] = 0

\* a real shelf life of more than twice the declared one, capped at 200
C6_Witness ==
    /\ AposPercentual
    /\ PctCalculavel(df)
    /\ VidaReal(df) * TicksPerDay > 2 * df.Dias_Validade[1]
    /\ df.Pct_Restante[1][1] = 200 * df.Pct_Restante[1][2]

\* C7: Pct_Restante is defined exactly when entry date, real date (after the
\* 2070 scrub) and a positive Dias_Validade are all present, and is then
\* real days / Dias_Validade * 100 limited to 0..200; without a usable
\* Dias_Validade it is absent although Dias_Esperados falls back to the
\* total shelf life.
C7_PctDefinedIffAndValue ==
    AposPercentual =>
        /\ (df.Pct_Restante # <<>>) <=> PctCalculavel(df)
        /\ PctCalculavel(df) =>
               LET n == VidaReal(df) * TicksPerDay * 100
                   d == df.Dias_Validade[1]
               IN  df.Pct_Restante =
                       << << IF n < 0 THEN 0 ELSE IF n > 200 * d THEN 200 * d ELSE n,
                             d >> >>
        /\ (df.Dias_Validade = <<>> \/ df.Dias_Validade[1] <= 0) =>
               /\ df.Pct_Restante = <<>>
               /\ df.Dias_Esperados =
                      IF DatasPresentes(df)
                      THEN <<VidaTotal(df) * TicksPerDay>> ELSE <<>>

\* both dates present, no usable declared shelf life: Dias_Esperados is the
\* total shelf life and there is no percentage
C7_Witness ==
    /\ AposPercentual
    /\ df.Data_de_entrada # <<>>
    /\ df.Data_de_vencimento # <<>>
    /\ df.Dias_Validade = <<0>>
    /\ df.Dias_Esperados # <<>>
    /\ df.Pct_Restante = <<>>

\* C8: with limiar_atencao < limiar_bom the Status is "Sem Validade" iff
\* there is no percentage, "Dentro do esperado" iff pct >= limiar_bom,
\* "Atencao" iff limiar_atencao <= pct < limiar_bom and "Fora do esperado"
\* iff pct < limiar_atencao.
C8_StatusByThresholds ==
    (AposPercentual /\ limiar_atencao[1] < limiar_bom[1]) =>
        LET def == df.Pct_Restante # <<>>
            num == df.Pct_Restante[1][1]
            den == df.Pct_Restante[1][2]
        IN  /\ df.Status \in {SemValidade, DentroDoEsperado, Atencao, ForaDoEsperado}
            /\ (df.Status = SemValidade) <=> ~def
            /\ (df.Status = DentroDoEsperado) <=> (def /\ num >= limiar_bom[1] * den)
            /\ (df.Status = Atencao)
                   <=> (def /\ num >= limiar_atencao[1] * den /\ num < limiar_bom[1] * den)
            /\ (df.Status = ForaDoEsperado) <=> (def /\ num < limiar_atencao[1] * den)

\* 31 real days over 100 declared days at the default thresholds: 31 %,
\* "Fora do esperado"
C8_Witness ==
    /\ AposPercentual
    /\ limiar_bom = <<90>>
    /\ limiar_atencao = <<50>>
    /\ df.Data_de_entrada = <<Date(2024, 1, 1)>>
    /\ df.Data_de_vencimento = <<Date(2024, 2, 1)>>
    /\ df.Dias_Validade = <<100 * TicksPerDay>>
    /\ df.Pct_Restante # <<>>
    /\ df.Pct_Restante[1][1] = 31 * df.Pct_Restante[1][2]
    /\ df.Status = ForaDoEsperado

\* --------------------------------------------------------------------------
\* Properties of the threshold sliders
\* --------------------------------------------------------------------------
\* C9: whatever the two sliders show, the pair the script holds after the
\* validation, which is the pair passed to calcular_status_percentual,
\* satisfies 0 <= limiar_atencao < limiar_bom < 100.
C9_ThresholdsOrdered ==
    (pc \in {"sidebar", "percentual", "divergencias"}) =>
        /\ limiar_bom # <<>>
        /\ limiar_atencao # <<>>
        /\ 0 <= limiar_atencao[1]
        /\ limiar_atencao[1] < limiar_bom[1]
        /\ limiar_bom[1] < 100

\* the sliders show a pair out of order and the classifier has run
C9_Witness ==
    /\ pc = "percentual"
    /\ slider_atencao >= slider_bom
    /\ limiar_atencao[1] < limiar_bom[1]

\* --------------------------------------------------------------------------
\* Properties of identificar_divergencias
\* --------------------------------------------------------------------------
Regra1(r) ==
    r.Tempo_de_Validade = <<>>
        /\ (r.Data_de_vencimento # <<>> \/ r.Venc_Esperado # <<>>)
Regra2(r) == r.Data_de_vencimento = <<>> /\ r.Venc_Esperado # <<>>
Regra3(r) == r.Data_de_vencimento # <<>> /\ r.Venc_Esperado = <<>>
Regra4(r) == r.Dias_Restantes # <<>> /\ r.Dias_Restantes[1] < 0
Regra5(r) == r.Status = ForaDoEsperado

\* C10: Tipo_Problema is the tag of the first rule that holds, in the order
\* 1..5, and empty when none holds.
C10_FirstRuleWins ==
    (pc = "divergencias") =>
        /\ Regra1(df) => df.Tipo_Problema = SemTempoCadastrado
        /\ (~Regra1(df) /\ Regra2(df)) => df.Tipo_Problema = SemDataReal
        /\ (~Regra1(df) /\ ~Regra2(df) /\ Regra3(df))
               => df.Tipo_Problema = SemTempoParaCalcular
        /\ (~Regra1(df) /\ ~Regra2(df) /\ ~Regra3(df) /\ Regra4(df))
               => df.Tipo_Problema = MaterialVencido
        /\ (~Regra1(df) /\ ~Regra2(df) /\ ~Regra3(df) /\ ~Regra4(df) /\ Regra5(df))
               => df.Tipo_Problema = DesvioCritico
        /\ (~Regra1(df) /\ ~Regra2(df) /\ ~Regra3(df) /\ ~Regra4(df) /\ ~Regra5(df))
               => df.Tipo_Problema = ""

\* an overdue row whose declared time is present but unusable: rules 3 and 4
\* both hold and the tag is that of rule 3
C10_Witness ==
    /\ pc = "divergencias"
    /\ ~Regra1(df)
    /\ Regra3(df)
    /\ Regra4(df)
    /\ df.Tipo_Problema = SemTempoParaCalcular

\* ---------------------------------------------------------------------------
\* C12: a row whose real expiration date carries the year 2070 leaves
\* identificar_divergencias with Tem_Problema false, whatever its declared
\* time and entry date.
C12_SentinelNeverFlagged ==
    (pc = "divergencias" /\ Original2070) => df.Tem_Problema = FALSE

\* ---------------------------------------------------------------------------
\* The duration parser and the expected expiration on one text
\* ---------------------------------------------------------------------------
\* numbers as they are written, with their value in halves
Numeros ==
    { [txt |-> <<"1", "2">>, meios |-> 24],
      [txt |-> <<"1">>, meios |-> 2],
      [txt |-> <<"6">>, meios |-> 12],
      [txt |-> <<"1", "0", "0">>, meios |-> 200],
      [txt |-> <<"0">>, meios |-> 0],
      [txt |-> <<"1", ",", "5">>, meios |-> 3],
      [txt |-> <<"2", ".", "5">>, meios |-> 5],
      [txt |-> <<"-", "3">>, meios |-> -6],
      [txt |-> <<"+", "2">>, meios |-> 4] }

\* the unit indicators of the parser, in lower and in upper case
Unidades ==
    { [txt |-> <<"d", "i", "a">>, tipo |-> "dia"],
      [txt |-> <<"d", "i", "a", "s">>, tipo |-> "dia"],
      [txt |-> <<"d">>, tipo |-> "dia"],
      [txt |-> <<"D", "I", "A", "S">>, tipo |-> "dia"],
      [txt |-> <<"m", "e", "s">>, tipo |-> "mes"],
      [txt |-> <<"m", "e", "s", "e", "s">>, tipo |-> "mes"],
      [txt |-> <<"m", "o">>, tipo |-> "mes"],
      [txt |-> <<"M", "e", "s", "e", "s">>, tipo |-> "mes"],
      [txt |-> <<"a", "n", "o">>, tipo |-> "ano"],
      [txt |-> <<"a", "n", "o", "s">>, tipo |-> "ano"],
      [txt |-> <<"y", "e", "a", "r">>, tipo |-> "ano"],
      [txt |-> <<"A", "N", "O", "S">>, tipo |-> "ano"] }

\* "<number> <unit>", bare and with blanks around it
Texto(n, u) == n.txt \o <<" ">> \o u.txt
Pad(s) == <<" ">> \o s \o <<" ", " ">>
TextosSimples ==
    {Texto(n, u) : n \in Numeros, u \in Unidades}
        \cup {Pad(Texto(n, u)) : n \in Numeros, u \in Unidades}

\* two durations in one text, of different units
NumerosCompostos == {n \in Numeros : n.meios \in {2, 12, 5}}
UnidadesCompostas == {u \in Unidades : ToLower(u.txt) = u.txt}
Composto(n1, u1, n2, u2) == Texto(n1, u1) \o <<" ">> \o Texto(n2, u2)
TextosCompostos ==
    UNION { {Composto(n1, u1, n2, u2) :
                n1 \in NumerosCompostos, n2 \in NumerosCompostos,
                u2 \in {u \in UnidadesCompostas : u.tipo # u1.tipo}} :
            u1 \in UnidadesCompostas }

\* blank text, text without a number, a number without a unit, a number with
\* a unit the parser does not know
Txt12 == <<"1", "2">>
Txt12Semanas == <<"1", "2", " ", "s", "e", "m", "a", "n", "a", "s">>
TextosIndefinidos ==
    {<<>>, <<" ", " ">>, TxtSemNumero, <<"a", "n", "o", "s">>, Txt12, Txt12Semanas}

ParserVals ==
    {NA} \cup {Some(t) : t \in TextosSimples \cup TextosCompostos \cup TextosIndefinidos}

InitParser ==
    /\ ppc = "inicio"
    /\ val \in ParserVals
    /\ entrada \in Entradas
    /\ linha = <<>>
    /\ ScriptParado /\ CargaParada /\ TimelineParada /\ FiltrosParados /\ DemaisParados

\* parse_tempo_validade_to_days(val)
ParserAplicar ==
    /\ ppc = "inicio"
    /\ linha' = parse_tempo_validade_to_days(val)
    /\ ppc' = "parse"
    /\ UNCHANGED <<val, entrada>>
    /\ UNCHANGED <<varsScript, varsCarga, varsTimeline, varsFiltros, varsDemais>>

\* calcular_vencimento_esperado on a frame of one row
ParserCalcularEsperado ==
    /\ ppc = "inicio"
    /\ linha' = calcular_vencimento_esperado(Row(entrada, NA, val))
    /\ ppc' = "esperado"
    /\ UNCHANGED <<val, entrada>>
    /\ UNCHANGED <<varsScript, varsCarga, varsTimeline, varsFiltros, varsDemais>>

NextParser ==
    \/ ParserAplicar
    \/ ParserCalcularEsperado

SpecParser == InitParser /\ [][NextParser]_vars

\* number x unit, in ticks: a day, a month of 30.4375 days, a year of 365 days
Esperado(n, tipo) ==
    IF tipo = "dia" THEN (n.meios * TicksPerDay) \div 2
    ELSE IF tipo = "mes" THEN (n.meios * MesEmDias16 * TicksPerDay) \div (16 * 2)
    ELSE (n.meios * AnoEmDias * TicksPerDay) \div 2

\* C15: for "<number> <unit>" the parser returns the number times 1, 30.4375
\* or 365 for a day, month or year unit, reading a decimal comma as a point
\* and ignoring case; for absent or blank text, text without a number and
\* text with a number but no known unit it returns NaN.
C15_ParseNumberTimesUnit ==
    (ppc = "parse") =>
        /\ \A n \in Numeros, u \in Unidades :
               (val = Some(Texto(n, u)) \/ val = Some(Pad(Texto(n, u))))
                   => linha = Some(Esperado(n, u.tipo))
        /\ (val = NA \/ (val # NA /\ Val(val) \in TextosIndefinidos)) => linha = NA

\* " 1,5 MESES  " in upper case with a decimal comma: 45.65625 days
C15_Witness ==
    /\ ppc = "parse"
    /\ val = Some(Pad(<<"1", ",", "5", " ", "M", "e", "s", "e", "s">>))
    /\ linha = Some((3 * MesEmDias16 * TicksPerDay) \div (16 * 2))

\* the unit the parser takes when the text has indicators of these units
Prioridade(tipos) ==
    IF "mes" \in tipos THEN "mes" ELSE IF "ano" \in tipos THEN "ano" ELSE "dia"

\* C16: the indicators are tested in the order month, year, day and the first
\* number of the text is used: with a month indicator the factor is 30.4375
\* whatever else the text holds, with a year indicator and no month indicator
\* it is 365.
C16_UnitOrderAndFirstNumber ==
    (ppc = "parse") =>
        \A n1 \in NumerosCompostos, n2 \in NumerosCompostos,
           u1 \in UnidadesCompostas, u2 \in UnidadesCompostas :
            (u1.tipo # u2.tipo /\ val = Some(Composto(n1, u1, n2, u2)))
                => linha = Some(Esperado(n1, Prioridade({u1.tipo, u2.tipo})))

\* "1 ano 6 meses" is one month
C16_Witness ==
    /\ ppc = "parse"
    /\ val = Some(<<"1", " ", "a", "n", "o", " ", "6", " ", "m", "e", "s", "e", "s">>)
    /\ linha = Some((2 * MesEmDias16 * TicksPerDay) \div (16 * 2))

\* C17: Venc_Esperado is defined exactly when the entry date is present and
\* Dias_Validade is present and above zero, and then it is the entry date
\* plus Dias_Validade; Dias_Validade is the parsed declared time.
C17_ExpectedExpirationDefined ==
    (ppc = "esperado") =>
        LET d == linha.Dias_Validade
        IN  /\ d = parse_tempo_validade_to_days(val)
            /\ \A n \in Numeros, u \in Unidades :
                   val = Some(Texto(n, u)) => d = Some(Esperado(n, u.tipo))
            /\ notna(linha.Venc_Esperado)
                   <=> (notna(entrada) /\ notna(d) /\ Val(d) > 0)
            /\ notna(linha.Venc_Esperado)
                   => Val(linha.Venc_Esperado) = Val(entrada) + Val(d)

\* an entry date with a declared time of zero days: no expected expiration
C17_Witness ==
    /\ ppc = "esperado"
    /\ entrada = Some(Entrada0)
    /\ val = Some(Txt0Dias)
    /\ linha.Dias_Validade = Some(0)
    /\ linha.Venc_Esperado = NA

\* ---------------------------------------------------------------------------
\* calcular_status_timeline
\* ---------------------------------------------------------------------------
TimelineVencido == "Vencido"
TimelineCritico == "Critico"
TimelineAtencao == "Atencao"
TimelineNormal == "Normal"

\* the conditions with "Critico" ending before the seventh day
TimelineConds_Lt7(e, d) ==
    << isna(e),
       lt(d, 0),
       lt(d, 7),
       notna(d) /\ Val(d) <= 30,
       gt(d, 30) >>

\* conditions, for one row
TimelineConds(e, d) ==
    << isna(e),
       lt(d, 0),
       notna(d) /\ Val(d) <= 7,
       notna(d) /\ Val(d) <= 30,
       gt(d, 30) >>

status_choices == <<SemValidade, TimelineVencido, TimelineCritico, TimelineAtencao, TimelineNormal>>
urgency_choices == <<4, 1, 2, 3, 4>>

\* One row of the timeline frame when the column "Expiration Date" exists.
TimelineLinha(r, h) ==
    LET d == DtDays(r.Expiration_Date, Some(h))
        conds == TimelineConds(r.Expiration_Date, d)
    IN  [r EXCEPT !.Dias_ate_Vencimento = d,
                  !.Status = np_select(conds, status_choices, TimelineNormal),
                  !.Urgency_Level = np_select(conds, urgency_choices, 4)]

\* calcular_status_timeline(df, hoje); df is [tem_expiration_date, linhas]
calcular_status_timeline(t, h) ==
    IF t.tem_expiration_date
    THEN [t EXCEPT !.linhas = [i \in 1..Len(t.linhas) |-> TimelineLinha(t.linhas[i], h)]]
    ELSE [t EXCEPT !.linhas =
              [i \in 1..Len(t.linhas) |->
                  [t.linhas[i] EXCEPT !.Dias_ate_Vencimento = NA,
                                      !.Status = SemValidade,
                                      !.Urgency_Level = 4]]]

MaxLinhasTimeline == 2

\* expiration dates around Hoje0, at midnight and at midday, in ticks
ExpirationOffsets ==
    {-TicksPerDay, -(TicksPerDay \div 2), 0, 2 * TicksPerDay,
     7 * TicksPerDay + TicksPerDay \div 2, 8 * TicksPerDay, 30 * TicksPerDay,
     31 * TicksPerDay}
ExpirationDates == {NA} \cup {Some(Hoje0 + k) : k \in ExpirationOffsets}

TimelineRow(e) ==
    [Expiration_Date |-> e, Dias_ate_Vencimento |-> NA, Status |-> "", Urgency_Level |-> 0]

\* the sequences over S of length at most n
SeqAte(S, n) == UNION {[1..k -> S] : k \in 0..n}

\* frames with the column, and frames without it
Timelines ==
    {[tem_expiration_date |-> TRUE, linhas |-> l] :
        l \in SeqAte({TimelineRow(e) : e \in ExpirationDates}, MaxLinhasTimeline)}
    \cup
    {[tem_expiration_date |-> FALSE, linhas |-> l] :
        l \in SeqAte({TimelineRow(NA)}, MaxLinhasTimeline)}

InitTimeline ==
    /\ tpc = "inicio"
    /\ timeline \in Timelines
    /\ hoje_timeline \in {Hoje0, Hoje0 + TicksPerDay}
    /\ ScriptParado /\ CargaParada /\ ParserParado /\ FiltrosParados /\ DemaisParados

CalcularStatusTimeline ==
    /\ tpc = "inicio"
    /\ timeline' = calcular_status_timeline(timeline, hoje_timeline)
    /\ tpc' = "classificado"
    /\ UNCHANGED hoje_timeline
    /\ UNCHANGED <<varsScript, varsCarga, varsParser, varsFiltros, varsDemais>>

NextTimeline == CalcularStatusTimeline

SpecTimeline == InitTimeline /\ [][NextTimeline]_vars

\* the whole days from hoje to the expiration date e (e present)
DiasAte(e) == CHOOSE d \in -3..40 :
    d * TicksPerDay <= Val(e) - hoje_timeline
        /\ Val(e) - hoje_timeline < (d + 1) * TicksPerDay

RemovePontoZero(s) ==
    IF Len(s) >= 2 /\ s[Len(s) - 1] = "." /\ s[Len(s)] = "0"
    THEN SubSeq(s, 1, Len(s) - 2)
    ELSE s

\* .astype(str).str.strip().str.replace(r"\.0$", "", regex=True)
NormalizaChave(s) == RemovePontoZero(Strip(s))

\* mb51 after its Material and Lote are cleaned
Mb51Limpo(mb) ==
    [i \in 1..Len(mb) |->
        [mb[i] EXCEPT !.Material = NormalizaChave(mb[i].Material),
                      !.Lote = NormalizaChave(mb[i].Lote)]]

\* sq00 after its Material and Lote are cleaned
Sq00Limpo(sq) ==
    [i \in 1..Len(sq) |->
        [sq[i] EXCEPT !.Material = NormalizaChave(sq[i].Material),
                      !.Lote = NormalizaChave(sq[i].Lote)]]

\* forn_sel after its Material is cleaned
FornLimpo(fn) ==
    [i \in 1..Len(fn) |-> [fn[i] EXCEPT !.Material = NormalizaChave(fn[i].Material)]]

\* the row x put into the sorted rows s after every row not later than it
RECURSIVE InsereOrdenado(_, _)
InsereOrdenado(x, s) ==
    IF s = <<>> THEN <<x>>
    ELSE IF Val(Head(s).Data_de_vencimento) <= Val(x.Data_de_vencimento)
         THEN <<Head(s)>> \o InsereOrdenado(x, Tail(s))
         ELSE <<x>> \o s

RECURSIVE OrdenaPresentes(_)
OrdenaPresentes(s) ==
    IF s = <<>> THEN <<>>
    ELSE InsereOrdenado(s[Len(s)], OrdenaPresentes(SubSeq(s, 1, Len(s) - 1)))

\* sort_values("Data de vencimento"): ascending, NaT last (na_position='last');
\* rows that tie are equal in the three columns of sq00 or differ in their key
SortValuesVencimento(sq) ==
    OrdenaPresentes(SelectSeq(sq, LAMBDA r : notna(r.Data_de_vencimento)))
        \o SelectSeq(sq, LAMBDA r : isna(r.Data_de_vencimento))

\* drop_duplicates(subset=["Material","Lote"], keep="last")
RECURSIVE DropDuplicatesLast(_)
DropDuplicatesLast(sq) ==
    IF sq = <<>> THEN <<>>
    ELSE (IF \E j \in 2..Len(sq) :
                 sq[j].Material = sq[1].Material /\ sq[j].Lote = sq[1].Lote
          THEN <<>> ELSE <<sq[1]>>)
         \o DropDuplicatesLast(Tail(sq))

\* the suppliers with their duplicates kept
DropDuplicatesMaterial_Identity(fn) == fn

\* drop_duplicates("Material") (keep="first")
RECURSIVE DropDuplicatesMaterial(_)
DropDuplicatesMaterial(fn) ==
    IF fn = <<>> THEN <<>>
    ELSE LET n == Len(fn)
         IN  DropDuplicatesMaterial(SubSeq(fn, 1, n - 1))
                 \o (IF \E j \in 1..(n - 1) : fn[j].Material = fn[n].Material
                     THEN <<>> ELSE <<fn[n]>>)

\* mb51.merge(sq00, on=["Material","Lote"], how="left"): every left row in
\* order, once per matching right row, once with NaT when none matches
RECURSIVE Merge1(_, _)
Merge1(mb, sq) ==
    IF mb = <<>> THEN <<>>
    ELSE LET l == Head(mb)
             ms == SelectSeq(sq, LAMBDA r : r.Material = l.Material /\ r.Lote = l.Lote)
             row(v) == [Material |-> l.Material, Lote |-> l.Lote,
                        Data_de_vencimento |-> v]
         IN  (IF ms = <<>> THEN <<row(NA)>>
              ELSE [i \in 1..Len(ms) |-> row(ms[i].Data_de_vencimento)])
             \o Merge1(Tail(mb), sq)

\* df.merge(forn_sel, on="Material", how="left")
RECURSIVE Merge2(_, _)
Merge2(d, fn) ==
    IF d = <<>> THEN <<>>
    ELSE LET l == Head(d)
             ms == SelectSeq(fn, LAMBDA r : r.Material = l.Material)
             row(t) == [Material |-> l.Material, Lote |-> l.Lote,
                        Data_de_vencimento |-> l.Data_de_vencimento,
                        Tempo_de_Validade |-> t]
         IN  (IF ms = <<>> THEN <<row(NA)>>
              ELSE [i \in 1..Len(ms) |-> row(ms[i].Tempo_de_Validade)])
             \o Merge2(Tail(d), fn)

\* sq00 as carregar_dados holds it before the merges
Sq00Carregado(sq) == DropDuplicatesLast(SortValuesVencimento(Sq00Limpo(sq)))

\* carregar_dados, from the contents of the three sheets
carregar_dados(mb, sq, fn) ==
    Merge2(Merge1(Mb51Limpo(mb), Sq00Carregado(sq)),
           DropDuplicatesMaterial(FornLimpo(fn)))

MaxMb51 == 2
MaxSq00 == 2
MaxForn == 2

Mat1 == <<"1">>
Mat1PontoZero == <<"1", ".", "0">>
Mat2 == <<"2">>
LoteA == <<"A">>
LoteAEspaco == <<" ", "A">>
LoteB == <<"B">>
Venc1 == Date(2024, 1, 1)
Venc2 == Date(2024, 3, 1)

Mb51Rows ==
    { [Material |-> Mat1, Lote |-> LoteA],
      [Material |-> Mat1PontoZero, Lote |-> LoteAEspaco],
      [Material |-> Mat1, Lote |-> LoteB],
      [Material |-> Mat2, Lote |-> LoteA] }

Sq00Rows ==
    { [Material |-> Mat1, Lote |-> LoteA, Data_de_vencimento |-> Some(Venc1)],
      [Material |-> Mat1, Lote |-> LoteA, Data_de_vencimento |-> Some(Venc2)],
      [Material |-> Mat1PontoZero, Lote |-> LoteAEspaco, Data_de_vencimento |-> NA],
      [Material |-> Mat1, Lote |-> LoteB, Data_de_vencimento |-> Some(Venc1)] }

FornRows ==
    { [Material |-> Mat1, Tempo_de_Validade |-> Some(Txt12Meses)],
      [Material |-> Mat1PontoZero, Tempo_de_Validade |-> Some(Txt100Dias)],
      [Material |-> Mat1, Tempo_de_Validade |-> NA],
      [Material |-> Mat2, Tempo_de_Validade |-> Some(Txt100Dias)] }

InitCarga ==
    /\ cpc = "inicio"
    /\ mb51 \in SeqAte(Mb51Rows, MaxMb51)
    /\ sq00 \in SeqAte(Sq00Rows, MaxSq00)
    /\ forn \in SeqAte(FornRows, MaxForn)
    /\ sq00_dedup = <<>>
    /\ tabela = <<>>
    /\ auditoria = <<>>
    /\ ScriptParado /\ ParserParado /\ TimelineParada /\ FiltrosParados /\ DemaisParados

\* df = carregar_dados()
CarregarDadosTabelas ==
    /\ cpc = "inicio"
    /\ sq00_dedup' = Sq00Carregado(sq00)
    /\ tabela' = carregar_dados(mb51, sq00, forn)
    /\ cpc' = "carregado"
    /\ UNCHANGED <<mb51, sq00, forn, auditoria>>
    /\ UNCHANGED <<varsScript, varsParser, varsTimeline, varsFiltros, varsDemais>>

NextCarga == CarregarDadosTabelas

SpecCarga == InitCarga /\ [][NextCarga]_vars

\* C13: the integrated frame has one row per row of MB51, in the same order,
\* whatever the three sheets hold, duplicate keys in SQ00 and in the
\* suppliers sheet included.
C13_NoMovementDroppedOrDuplicated ==
    (cpc = "carregado") =>
        /\ Len(tabela) = Len(mb51)
        /\ \A i \in 1..Len(mb51) :
               /\ tabela[i].Material = NormalizaChave(mb51[i].Material)
               /\ tabela[i].Lote = NormalizaChave(mb51[i].Lote)

\* two movements of different batches, the first matched by two SQ00 rows of
\* the same cleaned key and by two supplier rows of the same cleaned material
C13_Witness ==
    /\ cpc = "carregado"
    /\ mb51 = <<[Material |-> Mat1PontoZero, Lote |-> LoteAEspaco],
                [Material |-> Mat1, Lote |-> LoteB]>>
    /\ Len(sq00) = 2
    /\ \A i \in 1..2 : NormalizaChave(sq00[i].Material) = Mat1
                           /\ NormalizaChave(sq00[i].Lote) = LoteA
    /\ Len(forn) = 2
    /\ \A i \in 1..2 : NormalizaChave(forn[i].Material) = Mat1
    /\ Len(tabela) = 2
    /\ tabela[1].Lote = LoteA
    /\ tabela[2].Lote = LoteB

\* the rows of the sheet SQ00 with the cleaned key (m, l)
DuplicatasDe(m, l) ==
    {i \in 1..Len(sq00) :
        NormalizaChave(sq00[i].Material) = m /\ NormalizaChave(sq00[i].Lote) = l}

\* C14: after SQ00 is loaded there is at most one row per cleaned (Material,
\* Lote), and the row kept for a key has the latest expiration date of the
\* rows of that key, also when some of them have no date.
C14_DedupKeepsLatestDate ==
    (cpc = "carregado") =>
        /\ \A i \in 1..Len(sq00_dedup), j \in 1..Len(sq00_dedup) :
               (sq00_dedup[i].Material = sq00_dedup[j].Material
                    /\ sq00_dedup[i].Lote = sq00_dedup[j].Lote) => i = j
        /\ \A k \in 1..Len(sq00_dedup) :
               \A i \in DuplicatasDe(sq00_dedup[k].Material, sq00_dedup[k].Lote) :
                   notna(sq00[i].Data_de_vencimento)
                       => /\ notna(sq00_dedup[k].Data_de_vencimento)
                          /\ Val(sq00_dedup[k].Data_de_vencimento)
                                 >= Val(sq00[i].Data_de_vencimento)

\* ---------------------------------------------------------------------------
\* gerar_auditoria
\* ---------------------------------------------------------------------------
\* A frame is [colunas, linhas]: the set of its column names and its rows,
\* each row a function on the column names.
cols_audit ==
    <<"Planta", "Deposito", "Material", "Descricao", "Lote",
      "Quantidade", "UM", "Status", "Pct_Restante", "Status_Tempo", "Tipo_Problema",
      "Data_de_entrada", "Data_de_vencimento", "Venc_Esperado",
      "Dias_Esperados", "Dias_Restantes", "Desvio_Dias", "Tempo_de_Validade">>

\* the audit with every row of df
gerar_auditoria_SemFiltro(d) ==
    LET df_prob == d.linhas
        cols_keep == SelectSeq(cols_audit, LAMBDA c : c \in d.colunas)
        keep == {cols_keep[k] : k \in 1..Len(cols_keep)}
    IN  IF df_prob = <<>> THEN [colunas |-> <<>>, linhas |-> <<>>]
        ELSE [colunas |-> cols_keep,
              linhas |-> [i \in 1..Len(df_prob) |-> [c \in keep |-> df_prob[i][c]]]]

\* gerar_auditoria(df); the columns of the result are in the order of cols_keep
gerar_auditoria(d) ==
    LET df_prob == SelectSeq(d.linhas, LAMBDA r : r.Tem_Problema)
        cols_keep == SelectSeq(cols_audit, LAMBDA c : c \in d.colunas)
        keep == {cols_keep[k] : k \in 1..Len(cols_keep)}
    IN  IF df_prob = <<>> THEN [colunas |-> <<>>, linhas |-> <<>>]
        ELSE [colunas |-> cols_keep,
              linhas |-> [i \in 1..Len(df_prob) |-> [c \in keep |-> df_prob[i][c]]]]

\* One row of df through calcular_vencimento_esperado, calcular_status_tempo,
\* calcular_status_percentual and identificar_divergencias: the columns they
\* write are added to the row, the others are kept.
LinhaProcessada(b, h, bom, atencao) ==
    LET r0 == Row(b.Data_de_entrada, b.Data_de_vencimento, b.Tempo_de_Validade)
        r == identificar_divergencias(
                 calcular_status_percentual(
                     calcular_status_tempo(calcular_vencimento_esperado(r0), h),
                     h, bom, atencao))
    IN  [c \in DOMAIN b \cup DOMAIN r |-> IF c \in DOMAIN r THEN r[c] ELSE b[c]]

\* df of the script after identificar_divergencias
TabelaProcessada(d, h, bom, atencao) ==
    [colunas |-> d.colunas \cup DOMAIN Row(NA, NA, NA),
     linhas |-> [i \in 1..Len(d.linhas) |-> LinhaProcessada(d.linhas[i], h, bom, atencao)]]

MaxLinhasAuditoria == 2

\* rows of the integrated frame without the column "Planta"
LinhasSemPlanta ==
    { [Material |-> Mat1, Lote |-> l, Movimento |-> "101",
       Data_de_entrada |-> Some(Entrada0), Data_de_vencimento |-> v,
       Tempo_de_Validade |-> t] :
        l \in {LoteA, LoteB},
        v \in {NA, Some(Entrada0 + 50 * TicksPerDay), Some(Entrada0 + 250 * TicksPerDay),
               Some(Date(2070, 1, 1))},
        t \in {NA, Some(Txt12Meses)} }

ComPlanta(b) ==
    [c \in DOMAIN b \cup {"Planta"} |-> IF c = "Planta" THEN "4400" ELSE b[c]]

\* the columns of the integrated frame when MB51 has no ninth column
ColunasSemPlanta ==
    {"Material", "Lote", "Movimento", "Data_de_entrada", "Data_de_vencimento",
     "Tempo_de_Validade"}

\* the integrated frames: MB51 without its ninth column "Planta" and with it
TabelasIntegradas ==
    {[colunas |-> ColunasSemPlanta, linhas |-> l] :
        l \in SeqAte(LinhasSemPlanta, MaxLinhasAuditoria)}
    \cup
    {[colunas |-> ColunasSemPlanta \cup {"Planta"},
      linhas |-> [i \in 1..Len(l) |-> ComPlanta(l[i])]] :
        l \in SeqAte(LinhasSemPlanta, MaxLinhasAuditoria)}

InitAuditoria ==
    /\ cpc = "inicio"
    /\ tabela \in TabelasIntegradas
    /\ auditoria = <<>>
    /\ mb51 = <<>> /\ sq00 = <<>> /\ forn = <<>> /\ sq00_dedup = <<>>
    /\ ScriptParado /\ ParserParado /\ TimelineParada /\ FiltrosParados /\ DemaisParados

\* the script from calcular_vencimento_esperado to identificar_divergencias,
\* on the whole frame, with the default thresholds
ProcessarTabela ==
    /\ cpc = "inicio"
    /\ tabela' = TabelaProcessada(tabela, Hoje0, DEFAULT_THRESHOLD_GOOD,
                                  DEFAULT_THRESHOLD_WARN)
    /\ cpc' = "divergencias"
    /\ UNCHANGED <<mb51, sq00, forn, sq00_dedup, auditoria>>
    /\ UNCHANGED <<varsScript, varsParser, varsTimeline, varsFiltros, varsDemais>>

\* df_auditoria = gerar_auditoria(df)
GerarAuditoria ==
    /\ cpc = "divergencias"
    /\ auditoria' = gerar_auditoria(tabela)
    /\ cpc' = "auditoria"
    /\ UNCHANGED <<mb51, sq00, forn, sq00_dedup, tabela>>
    /\ UNCHANGED <<varsScript, varsParser, varsTimeline, varsFiltros, varsDemais>>

NextAuditoria ==
    \/ ProcessarTabela
    \/ GerarAuditoria

SpecAuditoria == InitAuditoria /\ [][NextAuditoria]_vars

\* the indices of the rows of df with a problem, and the k-th of them
ComProblema == {i \in 1..Len(tabela.linhas) : tabela.linhas[i].Tem_Problema}
KesimoComProblema(k) ==
    CHOOSE i \in ComProblema : Cardinality({j \in ComProblema : j < i}) = k - 1

\* the names in cols_audit
ColunasDocumentadas == {cols_audit[k] : k \in 1..Len(cols_audit)}

Truthy_Sempre(x) == TRUE

\* the truth value Python gives a filter value: a text or a list is a tuple,
\* a drill-down value is None (NA) or Some(v); '', [] and None are false
Truthy(x) == x # <<>> /\ x # <<"">>

\* has_filters
HasFilters(fs, filter_source) ==
    \/ /\ filter_source \in {"all", "global"}
       /\ (Truthy(fs.search_query) \/ Truthy(fs.depot_filter))
    \/ /\ filter_source \in {"all", "chart"}
       /\ \/ Truthy(fs.status_filter_from_chart)
          \/ Truthy(fs.status_tempo_filter_from_chart)
          \/ Truthy(fs.problem_type_filter_from_chart)

\* astype(str) of a text cell: NaN becomes the text "nan"
AsStr(x) == IF isna(x) THEN <<"n", "a", "n">> ELSE Val(x)

\* the depth of open groups after the first n characters of the pattern q,
\* -1 once a ")" has closed a group that was not open
RECURSIVE GruposAbertos(_, _)
GruposAbertos(q, n) ==
    IF n = 0 THEN 0
    ELSE LET antes == GruposAbertos(q, n - 1)
         IN  IF antes < 0 THEN antes
             ELSE IF q[n] = "(" THEN antes + 1
             ELSE IF q[n] = ")" THEN antes - 1
             ELSE antes

\* re.compile(q) raises re.error, for a pattern q of ordinary characters,
\* ".", "(", ")" and "*": a group is not closed or not open, or a "*" has
\* nothing to repeat or repeats a repeat
RegexErro(q) ==
    \/ GruposAbertos(q, Len(q)) # 0
    \/ \E i \in 1..Len(q) :
           /\ q[i] = "*"
           /\ (i = 1 \/ q[i - 1] \in {"(", "*"})

\* str.contains(q, case=False, na=False): q is a regular expression, searched
\* anywhere in the text. For a pattern of ordinary characters and ".", where
\* "." matches any one character and an ordinary character matches itself in
\* either case.
StrContains(x, q) ==
    LET s == ToLower(AsStr(x))
        p == ToLower(q)
    IN  \E i \in 1..(Len(s) - Len(p) + 1) :
            \A k \in 1..Len(p) : p[k] = "." \/ s[i + k - 1] = p[k]

\* the depot filter as equality with the first selected depot
DepotIsin_Primeiro(dep, lista) == lista # <<>> /\ dep = lista[1]

\* df["Deposito"].isin(depot_filter), for one row
DepotIsin(dep, lista) == \E k \in 1..Len(lista) : lista[k] = dep

\* The steps of apply_filters after the early return, in the order of the
\* code: each is [ativo, filtro, valor, passa], passa being the mask of the
\* step for a row. A step reads its column only when it is active and the
\* frame has the column: without the column the call has ended in ErroDoFiltro.
PassosDoFiltro(d, fs, filter_source) ==
    LET chart == filter_source \in {"all", "chart"}
        global == filter_source \in {"all", "global"}
    IN  << [ativo |-> chart /\ Truthy(fs.status_filter_from_chart),
            filtro |-> "Status", valor |-> fs.status_filter_from_chart,
            passa |-> [i \in 1..Len(d.linhas) |->
                          /\ "Status" \in d.colunas
                          /\ Some(d.linhas[i].Status) = fs.status_filter_from_chart]],
           [ativo |-> chart /\ Truthy(fs.status_tempo_filter_from_chart),
            filtro |-> "Temporal Status", valor |-> fs.status_tempo_filter_from_chart,
            passa |-> [i \in 1..Len(d.linhas) |->
                          /\ "Status_Tempo" \in d.colunas
                          /\ Some(d.linhas[i].Status_Tempo) = fs.status_tempo_filter_from_chart]],
           [ativo |-> chart /\ Truthy(fs.problem_type_filter_from_chart)
                          /\ "Tipo_Problema" \in d.colunas,
            filtro |-> "Problem Type", valor |-> fs.problem_type_filter_from_chart,
            passa |-> [i \in 1..Len(d.linhas) |->
                          /\ "Tipo_Problema" \in d.colunas
                          /\ Some(d.linhas[i].Tipo_Problema) = fs.problem_type_filter_from_chart]],
           [ativo |-> global /\ Truthy(fs.depot_filter),
            filtro |-> "Depot", valor |-> fs.depot_filter,
            passa |-> [i \in 1..Len(d.linhas) |->
                          DepotIsin(d.linhas[i].Deposito, fs.depot_filter)]],
           [ativo |-> global /\ Truthy(fs.search_query),
            filtro |-> "Search", valor |-> fs.search_query,
            passa |-> [i \in 1..Len(d.linhas) |->
                          \/ StrContains(d.linhas[i].Material, fs.search_query)
                          \/ StrContains(d.linhas[i].Descricao, fs.search_query)]] >>

\* mask after the first n steps: mask &= ... for every active step
RECURSIVE Mascara(_, _, _)
Mascara(passos, n, len) ==
    IF n = 0 THEN [i \in 1..len |-> TRUE]
    ELSE LET m == Mascara(passos, n - 1, len)
         IN  IF passos[n].ativo
             THEN [i \in 1..len |-> m[i] /\ passos[n].passa[i]]
             ELSE m

\* the rows of s at the indices where mask is true
RECURSIVE PorMascara(_, _)
PorMascara(s, mask) ==
    IF s = <<>> THEN <<>>
    ELSE (IF mask[1] THEN <<Head(s)>> ELSE <<>>)
         \o PorMascara(Tail(s), [i \in 1..(Len(s) - 1) |-> mask[i + 1]])

\* the exception apply_filters raises after the early return, "" if none:
\* df[column] of a column the frame lacks is a KeyError, a search text that is
\* no regular expression is a re.error; the steps run in the order of the code
\* and the first exception ends the call
ErroDoFiltro(d, fs, filter_source) ==
    LET chart == filter_source \in {"all", "chart"}
        global == filter_source \in {"all", "global"}
    IN  IF chart /\ Truthy(fs.status_filter_from_chart) /\ "Status" \notin d.colunas
        THEN "KeyError"
        ELSE IF chart /\ Truthy(fs.status_tempo_filter_from_chart)
                      /\ "Status_Tempo" \notin d.colunas
        THEN "KeyError"
        ELSE IF global /\ Truthy(fs.depot_filter) /\ "Deposito" \notin d.colunas
        THEN "KeyError"
        ELSE IF global /\ Truthy(fs.search_query) /\ "Material" \notin d.colunas
        THEN "KeyError"
        ELSE IF global /\ Truthy(fs.search_query) /\ RegexErro(fs.search_query)
        THEN "re.error"
        ELSE IF global /\ Truthy(fs.search_query) /\ "Descricao" \notin d.colunas
        THEN "KeyError"
        ELSE ""

\* apply_filters(df, filter_source) under filter_state fs. The result is the
\* frame, the descriptions, and whether the frame is the object it was given;
\* erro is the exception raised instead, "" if the call returned.
apply_filters(d, fs, filter_source) ==
    IF ~HasFilters(fs, filter_source)
    THEN [df |-> d, applied_filters |-> <<>>, mesmo_objeto |-> TRUE, erro |-> ""]
    ELSE IF ErroDoFiltro(d, fs, filter_source) # ""
    THEN [df |-> <<>>, applied_filters |-> <<>>, mesmo_objeto |-> FALSE,
          erro |-> ErroDoFiltro(d, fs, filter_source)]
    ELSE
      LET passos == PassosDoFiltro(d, fs, filter_source)
          mask == Mascara(passos, Len(passos), Len(d.linhas))
          ativos == SelectSeq(passos, LAMBDA p : p.ativo)
          applied_filters == [k \in 1..Len(ativos) |-> <<ativos[k].filtro, ativos[k].valor>>]
      IN  IF Len(applied_filters) = 0
          THEN [df |-> d, applied_filters |-> applied_filters, mesmo_objeto |-> TRUE,
                erro |-> ""]
          ELSE [df |-> [d EXCEPT !.linhas = PorMascara(d.linhas, mask)],
                applied_filters |-> applied_filters, mesmo_objeto |-> FALSE,
                erro |-> ""]

MaxLinhasFiltro == 2

TxtA1 == <<"A", "1">>
TxtB2 == <<"B", "2">>
TxtC3 == <<"C", "3">>
TxtTinta == <<"T", "i", "n", "t", "a">>
TxtColaA1 == <<"c", "o", "l", "a", " ", "a", "1">>

\* classified rows
LinhasClassificadas ==
    { [Material |-> Some(TxtA1), Descricao |-> Some(TxtTinta), Deposito |-> "D1",
       Status |-> DentroDoEsperado, Status_Tempo |-> TempoBom, Tipo_Problema |-> ""],
      [Material |-> Some(TxtB2), Descricao |-> Some(TxtColaA1), Deposito |-> "D2",
       Status |-> ForaDoEsperado, Status_Tempo |-> TempoCritico,
       Tipo_Problema |-> DesvioCritico],
      [Material |-> Some(TxtB2), Descricao |-> NA, Deposito |-> "D3",
       Status |-> ForaDoEsperado, Status_Tempo |-> TempoBom,
       Tipo_Problema |-> MaterialVencido],
      [Material |-> Some(TxtC3), Descricao |-> Some(TxtTinta), Deposito |-> "D1",
       Status |-> ForaDoEsperado, Status_Tempo |-> TempoCritico,
       Tipo_Problema |-> DesvioCritico] }

ColunasClassificadas ==
    {"Material", "Descricao", "Deposito", "Status", "Status_Tempo", "Tipo_Problema"}

TabelasClassificadas ==
    {[colunas |-> ColunasClassificadas, linhas |-> l] :
        l \in SeqAte(LinhasClassificadas, MaxLinhasFiltro)}

\* values of the filters
Buscas == {<<>>, <<"a", "1">>, <<"T", "I", "N">>, <<"a", "n">>}
DepotFilters == {<<>>, <<"D1">>, <<"D1", "D2">>, <<"D3", "D1">>}
StatusFilters == {NA, Some(DentroDoEsperado), Some(ForaDoEsperado)}
StatusTempoFilters == {NA, Some(TempoBom), Some(TempoCritico)}
ProblemTypeFilters == {NA, Some(DesvioCritico), Some(MaterialVencido)}
FilterSources == {"all", "global", "chart", "tab"}

FilterStates ==
    [search_query : Buscas, depot_filter : DepotFilters,
     status_filter_from_chart : StatusFilters,
     status_tempo_filter_from_chart : StatusTempoFilters,
     problem_type_filter_from_chart : ProblemTypeFilters]

InitFiltros ==
    /\ fpc = "editando"
    /\ filter_state \in FilterStates
    /\ fdf \in TabelasClassificadas
    /\ filtrado = <<>>
    /\ ScriptParado /\ CargaParada /\ ParserParado /\ TimelineParada /\ DemaisParados

\* the search box of the sidebar
DefinirBusca ==
    /\ \E q \in Buscas :
           /\ filter_state.search_query # q
           /\ filter_state' = [filter_state EXCEPT !.search_query = q]
    /\ fpc' = "editando"
    /\ filtrado' = <<>>
    /\ UNCHANGED fdf
    /\ UNCHANGED <<varsScript, varsCarga, varsParser, varsTimeline, varsDemais>>

\* the depot multiselect of the sidebar
DefinirDepositos ==
    /\ \E l \in DepotFilters : filter_state' = [filter_state EXCEPT !.depot_filter = l]
    /\ fpc' = "editando"
    /\ filtrado' = <<>>
    /\ UNCHANGED fdf
    /\ UNCHANGED <<varsScript, varsCarga, varsParser, varsTimeline, varsDemais>>

\* apply_filters(df, filter_source)
AplicarFiltros ==
    /\ fpc = "editando"
    /\ \E filter_source \in FilterSources :
           filtrado' = [resultado |-> apply_filters(fdf, filter_state, filter_source),
                        filter_source |-> filter_source]
    /\ fpc' = "aplicado"
    /\ UNCHANGED <<filter_state, fdf>>
    /\ UNCHANGED <<varsScript, varsCarga, varsParser, varsTimeline, varsDemais>>

NextFiltros ==
    \/ DefinirBusca
    \/ DefinirDepositos
    \/ AplicarFiltros

SpecFiltros == InitFiltros /\ [][NextFiltros]_vars

\* no search text, no depot, no drill-down value
FilterStateVazio ==
    /\ filter_state.search_query = <<>>
    /\ filter_state.depot_filter = <<>>
    /\ filter_state.status_filter_from_chart = NA
    /\ filter_state.status_tempo_filter_from_chart = NA
    /\ filter_state.problem_type_filter_from_chart = NA

\* C19: with an all-empty filter state apply_filters returns, for every
\* scope, the frame it was given, the same object with every row in place,
\* and no description.
C19_EmptyFilterStateIsIdentity ==
    (fpc = "aplicado" /\ FilterStateVazio) =>
        /\ filtrado.resultado.df = fdf
        /\ filtrado.resultado.mesmo_objeto
        /\ filtrado.resultado.applied_filters = <<>>

\* an all-empty filter state applied with scope 'all' to a frame of two rows
C19_Witness ==
    /\ fpc = "aplicado"
    /\ FilterStateVazio
    /\ filtrado.filter_source = "all"
    /\ Len(fdf.linhas) = 2
    /\ filtrado.resultado.df = fdf
    /\ filtrado.resultado.applied_filters = <<>>

\* the predicates that are active in the scope, each a set of rows it accepts
PredicadosAtivos ==
    LET fs == filter_state
        chart == filtrado.filter_source \in {"all", "chart"}
        global == filtrado.filter_source \in {"all", "global"}
    IN  (IF chart /\ fs.status_filter_from_chart # NA
         THEN {[filtro |-> "Status",
                aceita |-> {r \in LinhasClassificadas :
                              r.Status = Val(fs.status_filter_from_chart)}]} ELSE {})
        \cup
        (IF chart /\ fs.status_tempo_filter_from_chart # NA
         THEN {[filtro |-> "Temporal Status",
                aceita |-> {r \in LinhasClassificadas :
                              r.Status_Tempo = Val(fs.status_tempo_filter_from_chart)}]} ELSE {})
        \cup
        (IF chart /\ fs.problem_type_filter_from_chart # NA
         THEN {[filtro |-> "Problem Type",
                aceita |-> {r \in LinhasClassificadas :
                              r.Tipo_Problema = Val(fs.problem_type_filter_from_chart)}]} ELSE {})
        \cup
        (IF global /\ fs.depot_filter # <<>>
         THEN {[filtro |-> "Depot",
                aceita |-> {r \in LinhasClassificadas :
                              r.Deposito \in {fs.depot_filter[k] :
                                                 k \in 1..Len(fs.depot_filter)}}]} ELSE {})
        \cup
        (IF global /\ fs.search_query # <<>>
         THEN {[filtro |-> "Search",
                aceita |-> {r \in LinhasClassificadas :
                              \/ StrContains(r.Material, fs.search_query)
                              \/ StrContains(r.Descricao, fs.search_query)}]} ELSE {})

\* C20: apply_filters returns, in their order, exactly the rows that every
\* active predicate of the scope accepts (the depot predicate accepts the
\* rows whose depot is one of the selected, a drill-down the rows equal to its
\* value), whatever the order of the predicates, with one description per
\* applied predicate.
C20_AndAcrossOrWithin ==
    (fpc = "aplicado") =>
        LET res == filtrado.resultado
        IN  /\ res.df.linhas =
                   SelectSeq(fdf.linhas, LAMBDA r : \A p \in PredicadosAtivos : r \in p.aceita)
            /\ res.df.colunas = fdf.colunas
            /\ Len(res.applied_filters) = Cardinality(PredicadosAtivos)
            /\ {res.applied_filters[k][1] : k \in 1..Len(res.applied_filters)}
                   = {p.filtro : p \in PredicadosAtivos}

\* two depots selected together with a status drill-down: the row of depot D2
\* passes, the row of depot D1 with another status does not
C20_Witness ==
    /\ fpc = "aplicado"
    /\ filtrado.filter_source = "all"
    /\ filter_state.depot_filter = <<"D1", "D2">>
    /\ filter_state.status_filter_from_chart = Some(ForaDoEsperado)
    /\ Len(fdf.linhas) = 2
    /\ fdf.linhas[1].Deposito = "D1"
    /\ fdf.linhas[1].Status = DentroDoEsperado
    /\ fdf.linhas[2].Deposito = "D2"
    /\ filtrado.resultado.df.linhas = <<fdf.linhas[2]>>
    /\ Len(filtrado.resultado.applied_filters) = 2

\* ---------------------------------------------------------------------------
\* One row through the script: today, partial data, the tags, a second run
\* ---------------------------------------------------------------------------
\* other values of today: the next day and more than a year later
OutrosHojes == {Hoje0, Hoje0 + TicksPerDay, Hoje0 + 400 * TicksPerDay}

\* the row of the state classified with today = h instead
ClassificadaEm(h) ==
    calcular_status_percentual(
        calcular_status_tempo(calcular_vencimento_esperado(raw), h),
        h, Val(limiar_bom), Val(limiar_atencao))

\* C24: Venc_Analise, Dias_Validade_Total, Status_Tempo, Pct_Restante and
\* Status of a row are the same for every value of today.
C24_TodayIsNotAClassificationInput ==
    (pc \in {"percentual", "divergencias"}) =>
        \A h \in OutrosHojes :
            LET o == ClassificadaEm(h)
            IN  /\ o.Venc_Analise = df.Venc_Analise
                /\ o.Dias_Validade_Total = df.Dias_Validade_Total
                /\ o.Status_Tempo = df.Status_Tempo
                /\ o.Pct_Restante = df.Pct_Restante
                /\ o.Status = df.Status

\* a row that is not overdue today and is overdue 400 days later: Dias_Restantes
\* and the tag differ, the classification does not
C24_Witness ==
    /\ pc = "divergencias"
    /\ df.Status_Tempo = TempoBom
    /\ df.Dias_Restantes # NA
    /\ Val(df.Dias_Restantes) > 0
    /\ df.Tipo_Problema # MaterialVencido
    /\ LET o == identificar_divergencias(ClassificadaEm(Hoje0 + 400 * TicksPerDay))
       IN  /\ o.Tipo_Problema = MaterialVencido
           /\ Val(o.Dias_Restantes) < 0
           /\ o.Status_Tempo = TempoBom

\* the row of the sheets lacks a date or a usable declared time
DadosParciais ==
    \/ raw.Data_de_entrada = NA
    \/ raw.Data_de_vencimento = NA
    \/ parse_tempo_validade_to_days(raw.Tempo_de_Validade) = NA

\* C25: a row with absent or unusable entry date, real expiration date or
\* declared time goes through the four steps, and comes out with a
\* Status_Tempo and a Status of their four values and a Tipo_Problema that is
\* empty or one of the five tags.
C25_PartialDataIsClassified ==
    /\ (DadosParciais /\ pc \in {"tempo", "sidebar", "percentual", "divergencias"}) =>
           df.Status_Tempo \in {TempoBom, TempoAtencao, TempoCritico, SemValidade}
    /\ (DadosParciais /\ pc \in {"percentual", "divergencias"}) =>
           df.Status \in {DentroDoEsperado, Atencao, ForaDoEsperado, SemValidade}
    /\ (DadosParciais /\ pc = "divergencias") =>
           /\ df.Tipo_Problema \in {"", SemTempoCadastrado, SemDataReal,
                                    SemTempoParaCalcular, MaterialVencido, DesvioCritico}
           /\ df.Data_de_entrada = raw.Data_de_entrada
           /\ df.Tempo_de_Validade = raw.Tempo_de_Validade

\* a row with nothing but a declared time without a number
C25_Witness ==
    /\ pc = "divergencias"
    /\ raw.Data_de_entrada = NA
    /\ raw.Data_de_vencimento = NA
    /\ raw.Tempo_de_Validade = Some(TxtSemNumero)
    /\ df.Status_Tempo = SemValidade
    /\ df.Status = SemValidade
    /\ df.Tipo_Problema = ""

\* declared time, real expiration date (2070 dates removed) and expected
\* expiration date are all present
TresPresentes(r) ==
    /\ r.Tempo_de_Validade # NA
    /\ r.Data_de_vencimento # NA
    /\ r.Venc_Esperado # NA

\* C27: a row tagged "Material Vencido" or "Desvio Percentual Critico" has
\* its declared time, its real expiration date and its expected expiration
\* date; an overdue row without one of them has one of the first three tags.
C27_ExpiredAndDeviationHaveAllThree ==
    (pc = "divergencias") =>
        /\ df.Tipo_Problema \in {MaterialVencido, DesvioCritico} => TresPresentes(df)
        /\ (df.Dias_Restantes # NA /\ Val(df.Dias_Restantes) < 0 /\ ~TresPresentes(df))
               => df.Tipo_Problema \in {SemTempoCadastrado, SemDataReal,
                                        SemTempoParaCalcular}

\* an overdue row with a real date and a declared time that gives no expected
\* date: tagged by rule 3
C27_Witness ==
    /\ pc = "divergencias"
    /\ df.Dias_Restantes # NA
    /\ Val(df.Dias_Restantes) < 0
    /\ df.Tempo_de_Validade # NA
    /\ df.Data_de_vencimento # NA
    /\ df.Venc_Esperado = NA
    /\ df.Tipo_Problema = SemTempoParaCalcular

\* C28: calcular_status_tempo applied, with the same today, to the row it
\* returned gives the same Venc_Analise, Dias_Restantes, Dias_Validade_Total
\* and Status_Tempo, also for a row whose real date was in 2070.
C28_StatusTempoIdempotent ==
    (pc = "tempo") =>
        LET again == calcular_status_tempo(df, hoje)
        IN  /\ again.Venc_Analise = df.Venc_Analise
            /\ again.Dias_Restantes = df.Dias_Restantes
            /\ again.Dias_Validade_Total = df.Dias_Validade_Total
            /\ again.Status_Tempo = df.Status_Tempo

\* ---------------------------------------------------------------------------
\* apply_filters over the timeline collection and with any search text
\* ---------------------------------------------------------------------------
\* rows of df_timeline as the timeline tab hands them to apply_filters: Status
\* is the urgency status of calcular_status_timeline, "Descricao" is the copy
\* of "Material" the tab adds, and there is no "Status_Tempo" and no
\* "Tipo_Problema". The columns apply_filters never reads are left out.
LinhasDaTimeline ==
    { [Material |-> Some(TxtA1), Descricao |-> Some(TxtA1), Deposito |-> "D1",
       Status |-> TimelineVencido],
      [Material |-> Some(TxtB2), Descricao |-> Some(TxtB2), Deposito |-> "D2",
       Status |-> TimelineNormal] }

ColunasDaTimeline == {"Material", "Descricao", "Deposito", "Status"}

TabelasDaTimeline ==
    {[colunas |-> ColunasDaTimeline, linhas |-> l] :
        l \in SeqAte(LinhasDaTimeline, MaxLinhasFiltro)}

\* search texts with the characters ".", "(" and "*"
BuscasComSimbolos ==
    {<<>>, <<"a", "1">>, <<"a", "n">>, <<"a", ".">>, <<".">>, <<"(">>, <<"*">>}

FilterStatesComSimbolos ==
    [search_query : BuscasComSimbolos, depot_filter : {<<>>, <<"D1">>},
     status_filter_from_chart : {NA, Some(ForaDoEsperado)},
     status_tempo_filter_from_chart : {NA, Some(TempoCritico)},
     problem_type_filter_from_chart : {NA, Some(DesvioCritico)}]

InitFiltrosGerais ==
    /\ fpc = "editando"
    /\ filter_state \in FilterStatesComSimbolos
    /\ fdf \in TabelasClassificadas \cup TabelasDaTimeline
    /\ filtrado = <<>>
    /\ ScriptParado /\ CargaParada /\ ParserParado /\ TimelineParada /\ DemaisParados

\* the search box of the sidebar, with any text
DefinirBuscaComSimbolos ==
    /\ \E q \in BuscasComSimbolos :
           /\ filter_state.search_query # q
           /\ filter_state' = [filter_state EXCEPT !.search_query = q]
    /\ fpc' = "editando"
    /\ filtrado' = <<>>
    /\ UNCHANGED fdf
    /\ UNCHANGED <<varsScript, varsCarga, varsParser, varsTimeline, varsDemais>>

NextFiltrosGerais ==
    \/ DefinirBuscaComSimbolos
    \/ DefinirDepositos
    \/ AplicarFiltros

SpecFiltrosGerais == InitFiltrosGerais /\ [][NextFiltrosGerais]_vars

\* the search text occurs, ignoring case, in the text x; an absent x has no
\* occurrence of anything
OcorreLiteral(x, q) == ~isna(x) /\ Contains(ToLower(Val(x)), ToLower(q))

\* C21: with a search text active, apply_filters with only the search in its
\* scope returns, and keeps exactly the rows where the text occurs, ignoring
\* case, as a literal substring of Material or of Descricao.
C21_SearchIsLiteralSubstring ==
    (/\ fpc = "aplicado"
     /\ filtrado.filter_source = "global"
     /\ filter_state.search_query # <<>>
     /\ filter_state.depot_filter = <<>>)
    => /\ filtrado.resultado.erro = ""
       /\ filtrado.resultado.df.linhas =
              SelectSeq(fdf.linhas,
                        LAMBDA r : \/ OcorreLiteral(r.Material, filter_state.search_query)
                                   \/ OcorreLiteral(r.Descricao, filter_state.search_query))

SCRAP_LOCATIONS ==
    { <<"4400", "9990">>, <<"4400", "9991">>, <<"4400", "9992">>,
      <<"4400", "9999">>, <<"4401", "9991">>, <<"4401", "9999">> }

LOGITRANSFERS_LOCATIONS == { <<"4400", "9998">>, <<"4401", "9998">> }

\* astype(str) of a cell read as text: NaN becomes "nan"
CelulaStr(x) == IF isna(x) THEN "nan" ELSE Val(x)

\* the "_plant_depot" tuple of a row
plant_depot(r) == <<CelulaStr(r.Planta), CelulaStr(r.Deposito)>>

\* the step entered only when both blocklists are enabled
FiltrosEspeciais_SoAmbos(d, ocultar_scrap, ocultar_logi) ==
    IF ~(ocultar_scrap /\ ocultar_logi) THEN d
    ELSE [d EXCEPT !.linhas =
             SelectSeq(d.linhas,
                       LAMBDA r : /\ plant_depot(r) \notin SCRAP_LOCATIONS
                                  /\ plant_depot(r) \notin LOGITRANSFERS_LOCATIONS)]

\* The step on the frame d: entered when a blocklist is enabled; keep_mask
\* starts all true and loses the rows of each enabled blocklist; the frame is
\* then d[keep_mask]. The "_plant_depot" column the step adds is left out.
FiltrosEspeciais(d, ocultar_scrap, ocultar_logi) ==
    IF ~(ocultar_scrap \/ ocultar_logi) THEN d
    ELSE LET n == Len(d.linhas)
             keep_mask0 == [i \in 1..n |-> TRUE]
             scrap_mask == [i \in 1..n |-> plant_depot(d.linhas[i]) \in SCRAP_LOCATIONS]
             keep_mask1 == IF ocultar_scrap
                           THEN [i \in 1..n |-> keep_mask0[i] /\ ~scrap_mask[i]]
                           ELSE keep_mask0
             logi_mask == [i \in 1..n |->
                              plant_depot(d.linhas[i]) \in LOGITRANSFERS_LOCATIONS]
             keep_mask == IF ocultar_logi
                          THEN [i \in 1..n |-> keep_mask1[i] /\ ~logi_mask[i]]
                          ELSE keep_mask1
         IN  [d EXCEPT !.linhas = PorMascara(d.linhas, keep_mask)]

\* One run of the script: the step of the main script on df under hide_scrap
\* and hide_logitransfers, and the step of the timeline tab on df_timeline
\* under the two checkboxes, which hide a blocklist while unchecked.
PassoDosFiltrosEspeciais(d, mostrar_scrap, mostrar_logi) ==
    [principal |-> FiltrosEspeciais(d, hide_scrap, hide_logitransfers),
     timeline |-> FiltrosEspeciais(d, ~mostrar_scrap, ~mostrar_logi)]

MaxLinhasBloqueio == 2

\* rows of either collection, with the two columns the step reads
LinhasComLocal ==
    { [Lote |-> "L1", Planta |-> Some("4400"), Deposito |-> Some("9990")],
      [Lote |-> "L2", Planta |-> Some("4401"), Deposito |-> Some("9991")],
      [Lote |-> "L3", Planta |-> Some("4401"), Deposito |-> Some("9990")],
      [Lote |-> "L4", Planta |-> Some("4400"), Deposito |-> Some("9998")],
      [Lote |-> "L5", Planta |-> Some("4400"), Deposito |-> Some("1000")],
      [Lote |-> "L6", Planta |-> NA, Deposito |-> Some("9999")] }

TabelasComLocal ==
    {[colunas |-> {"Lote", "Planta", "Deposito"}, linhas |-> l] :
        l \in SeqAte(LinhasComLocal, MaxLinhasBloqueio)}

\* session start: no filter, both checkboxes unchecked, and hide_scrap and
\* hide_logitransfers not in the session state
InitBloqueio ==
    /\ bpc = "inicio"
    /\ hide_scrap = FALSE
    /\ hide_logitransfers = FALSE
    /\ show_scrap_timeline = FALSE
    /\ show_logitransfers_timeline = FALSE
    /\ bdf \in TabelasComLocal
    /\ df_bloqueado = <<>>
    /\ fpc = "parado"
    /\ filter_state = [search_query |-> <<>>, depot_filter |-> <<>>,
                       status_filter_from_chart |-> NA,
                       status_tempo_filter_from_chart |-> NA,
                       problem_type_filter_from_chart |-> NA]
    /\ fdf = <<>>
    /\ filtrado = <<>>
    /\ ScriptParado /\ CargaParada /\ ParserParado /\ TimelineParada
    /\ LimpezaParada /\ CriticosParados /\ AtualizarParado

\* the first run of the script
PrimeiraExecucao ==
    /\ bpc = "inicio"
    /\ bpc' = "executado"
    /\ df_bloqueado' = PassoDosFiltrosEspeciais(bdf, show_scrap_timeline,
                                                show_logitransfers_timeline)
    /\ UNCHANGED <<hide_scrap, hide_logitransfers, show_scrap_timeline,
                   show_logitransfers_timeline, bdf>>
    /\ UNCHANGED <<varsScript, varsCarga, varsParser, varsTimeline, varsFiltros,
                   varsLimpeza, varsCriticos, varsAtualizar>>

\* the checkbox "Mostrar Scrap" and the run it triggers
AlternarShowScrap ==
    /\ bpc = "executado"
    /\ show_scrap_timeline' = ~show_scrap_timeline
    /\ df_bloqueado' = PassoDosFiltrosEspeciais(bdf, show_scrap_timeline',
                                                show_logitransfers_timeline)
    /\ UNCHANGED <<bpc, hide_scrap, hide_logitransfers,
                   show_logitransfers_timeline, bdf>>
    /\ UNCHANGED <<varsScript, varsCarga, varsParser, varsTimeline, varsFiltros,
                   varsLimpeza, varsCriticos, varsAtualizar>>

\* the checkbox "Mostrar LogiTransfers" and the run it triggers
AlternarShowLogitransfers ==
    /\ bpc = "executado"
    /\ show_logitransfers_timeline' = ~show_logitransfers_timeline
    /\ df_bloqueado' = PassoDosFiltrosEspeciais(bdf, show_scrap_timeline,
                                                show_logitransfers_timeline')
    /\ UNCHANGED <<bpc, hide_scrap, hide_logitransfers, show_scrap_timeline, bdf>>
    /\ UNCHANGED <<varsScript, varsCarga, varsParser, varsTimeline, varsFiltros,
                   varsLimpeza, varsCriticos, varsAtualizar>>

\* the search box or the depot multiselect of the sidebar and the run it
\* triggers
AlterarFiltrosGlobais ==
    /\ bpc = "executado"
    /\ \E q \in Buscas, l \in DepotFilters :
           /\ <<q, l>> # <<filter_state.search_query, filter_state.depot_filter>>
           /\ filter_state' = [filter_state EXCEPT !.search_query = q,
                                                   !.depot_filter = l]
    /\ df_bloqueado' = PassoDosFiltrosEspeciais(bdf, show_scrap_timeline,
                                                show_logitransfers_timeline)
    /\ UNCHANGED <<fpc, fdf, filtrado>>
    /\ UNCHANGED <<bpc, hide_scrap, hide_logitransfers, show_scrap_timeline,
                   show_logitransfers_timeline, bdf>>
    /\ UNCHANGED <<varsScript, varsCarga, varsParser, varsTimeline,
                   varsLimpeza, varsCriticos, varsAtualizar>>

NextBloqueio ==
    \/ PrimeiraExecucao
    \/ AlternarShowScrap
    \/ AlternarShowLogitransfers
    \/ AlterarFiltrosGlobais

SpecBloqueio == InitBloqueio /\ [][NextBloqueio]_vars

\* the rows of bdf whose pair is in no set of excluidos, in their order
ForaDe(excluidos) ==
    SelectSeq(bdf.linhas, LAMBDA r : plant_depot(r) \notin excluidos)

\* the exclusion set of the enabled blocklists
Excluidos(ocultar_scrap, ocultar_logi) ==
    (IF ocultar_scrap THEN SCRAP_LOCATIONS ELSE {})
    \cup (IF ocultar_logi THEN LOGITRANSFERS_LOCATIONS ELSE {})

\* C22: after a run, each collection holds exactly the rows of its input whose
\* (Planta, Deposito) pair is not in the exclusion set of the enabled
\* blocklists, in their order, whatever filter_state holds.
C22_BlocklistIsAntiJoin ==
    (bpc = "executado") =>
        /\ df_bloqueado.principal.linhas =
               ForaDe(Excluidos(hide_scrap, hide_logitransfers))
        /\ df_bloqueado.timeline.linhas =
               ForaDe(Excluidos(~show_scrap_timeline, ~show_logitransfers_timeline))

\* scrap shown and logitransfers hidden on the timeline, with a search text
\* and a depot selected: of a scrap row and a logitransfers row the timeline
\* keeps the scrap row only
C22_Witness ==
    /\ bpc = "executado"
    /\ show_scrap_timeline /\ ~show_logitransfers_timeline
    /\ filter_state.search_query # <<>>
    /\ filter_state.depot_filter # <<>>
    /\ Len(bdf.linhas) = 2
    /\ plant_depot(bdf.linhas[1]) \in SCRAP_LOCATIONS
    /\ plant_depot(bdf.linhas[2]) \in LOGITRANSFERS_LOCATIONS
    /\ df_bloqueado.timeline.linhas = <<bdf.linhas[1]>>
    /\ df_bloqueado.principal.linhas = bdf.linhas

\* ---------------------------------------------------------------------------
\* The sidebar filters, has_active_filters and clear_all_filters
\* ---------------------------------------------------------------------------
\* the keys of the multiselects of the audit tab
audit_widget_keys ==
    {"audit_deposito", "audit_movimento", "audit_material", "audit_lote",
     "audit_status_pct", "audit_status_tempo", "audit_tipo_problema"}

\* has_active_filters() under filter_state fs and session state ss
has_active_filters(fs, ss) ==
    \/ Truthy(fs.search_query)
    \/ Truthy(fs.depot_filter)
    \/ Truthy(fs.status_filter_from_chart)
    \/ Truthy(fs.status_tempo_filter_from_chart)
    \/ Truthy(fs.problem_type_filter_from_chart)
    \/ \E key \in audit_widget_keys : Truthy(ss.audit[key])
    \/ ss.date_preset # "Tudo"

\* A keyed widget of the sidebar in the session state: valor is the value=
\* (default=) argument of its last call, estado what the widget holds.
\* Calling it again with the argument v: a build that identifies the widget
\* by its key keeps what the widget holds; a build that identifies it by its
\* arguments sees a new widget when the argument changed, and the new widget
\* holds the argument.
RenderizarWidget(w, v, por_chave) ==
    IF por_chave \/ w.valor = v
    THEN [valor |-> v, estado |-> w.estado]
    ELSE [valor |-> v, estado |-> v]

\* The sidebar of one run of the script, from the session state ss and the
\* filter state fs: the text input and the multiselect are called with the
\* filter state as their argument and the filter state takes what they
\* return; has_active_filters() then decides the clear button.
SidebarDosFiltros(fs, ss, por_chave) ==
    LET busca == RenderizarWidget(ss.global_search_input, fs.search_query, por_chave)
        deposito == RenderizarWidget(ss.global_depot_filter, fs.depot_filter, por_chave)
        fs2 == [fs EXCEPT !.search_query = busca.estado,
                          !.depot_filter = deposito.estado]
        ss2 == [ss EXCEPT !.global_search_input = busca,
                          !.global_depot_filter = deposito]
    IN  [filter_state |-> fs2, session_state |-> ss2,
         filtros_ativos |-> has_active_filters(fs2, ss2)]

\* clear_all_filters(): the filter state and the widget keys it resets. The
\* keys 'sidebar_search' and 'sidebar_depot' it tests belong to no widget, and
\* the keys of the two sidebar widgets are not among those it resets.
clear_all_filters(ss) ==
    [filter_state |-> [search_query |-> <<>>, depot_filter |-> <<>>,
                       status_filter_from_chart |-> NA,
                       status_tempo_filter_from_chart |-> NA,
                       problem_type_filter_from_chart |-> NA],
     session_state |-> [ss EXCEPT !.audit = [key \in audit_widget_keys |-> <<>>],
                                  !.date_preset = "Tudo"]]

\* the options of the selectbox "Periodo de entrada" used here
DatePresets == {"Personalizado", "Ultimos 30 dias", "Tudo"}

\* the session after the first run of the script: nothing typed or selected,
\* the selectbox on its first option
InitLimpeza ==
    /\ lpc = "executado"
    /\ filter_state = [search_query |-> <<>>, depot_filter |-> <<>>,
                       status_filter_from_chart |-> NA,
                       status_tempo_filter_from_chart |-> NA,
                       problem_type_filter_from_chart |-> NA]
    /\ session_state =
           [global_search_input |-> [valor |-> <<>>, estado |-> <<>>],
            global_depot_filter |-> [valor |-> <<>>, estado |-> <<>>],
            audit |-> [key \in audit_widget_keys |-> <<>>],
            date_preset |-> "Personalizado"]
    /\ filtros_ativos = FALSE
    /\ widget_por_chave \in BOOLEAN
    /\ fpc = "parado" /\ fdf = <<>> /\ filtrado = <<>>
    /\ ScriptParado /\ CargaParada /\ ParserParado /\ TimelineParada
    /\ BloqueioParado /\ CriticosParados /\ AtualizarParado

\* the run of the script that follows an interaction
ExecutarScript(fs, ss, posicao) ==
    LET r == SidebarDosFiltros(fs, ss, widget_por_chave)
    IN  /\ filter_state' = r.filter_state
        /\ session_state' = r.session_state
        /\ filtros_ativos' = r.filtros_ativos
        /\ lpc' = posicao
        /\ UNCHANGED <<widget_por_chave, fpc, fdf, filtrado>>
        /\ UNCHANGED <<varsScript, varsCarga, varsParser, varsTimeline,
                       varsBloqueio, varsCriticos, varsAtualizar>>

\* the user types in the search box
DigitarBusca ==
    \E q \in Buscas :
        /\ q # session_state.global_search_input.estado
        /\ ExecutarScript(filter_state,
                          [session_state EXCEPT !.global_search_input.estado = q],
                          "executado")

\* the user changes the depot multiselect
SelecionarDepositos ==
    \E l \in DepotFilters :
        /\ l # session_state.global_depot_filter.estado
        /\ ExecutarScript(filter_state,
                          [session_state EXCEPT !.global_depot_filter.estado = l],
                          "executado")

\* the user picks or removes the one option of a multiselect of the audit tab
SelecionarNaAuditoria ==
    \E key \in audit_widget_keys :
        ExecutarScript(filter_state,
                       [session_state EXCEPT !.audit[key] =
                            IF @ = <<>> THEN <<"x">> ELSE <<>>],
                       "executado")

\* the user picks an entry period
EscolherPeriodo ==
    \E p \in DatePresets :
        /\ p # session_state.date_preset
        /\ ExecutarScript(filter_state, [session_state EXCEPT !.date_preset = p],
                          "executado")

\* A "Limpar Todos os Filtros" button, enabled while filters are active. The
\* click starts a run, which renders the sidebar before it reaches the
\* button; the button then calls clear_all_filters() and st.rerun(), and the
\* new run renders the sidebar again.
LimparTodosOsFiltros ==
    /\ filtros_ativos
    /\ LET r == SidebarDosFiltros(filter_state, session_state, widget_por_chave)
           c == clear_all_filters(r.session_state)
       IN  ExecutarScript(c.filter_state, c.session_state, "limpo")

NextLimpeza ==
    \/ DigitarBusca
    \/ SelecionarDepositos
    \/ SelecionarNaAuditoria
    \/ EscolherPeriodo
    \/ LimparTodosOsFiltros

SpecLimpeza == InitLimpeza /\ [][NextLimpeza]_vars

\* C23: after clear_all_filters and the run that follows it, filter_state has
\* no search text, no depot and no drill-down value, and has_active_filters()
\* is false.
C23_ClearAllResetsFilterState ==
    (lpc = "limpo") =>
        /\ filter_state.search_query = <<>>
        /\ filter_state.depot_filter = <<>>
        /\ filter_state.status_filter_from_chart = NA
        /\ filter_state.status_tempo_filter_from_chart = NA
        /\ filter_state.problem_type_filter_from_chart = NA
        /\ ~filtros_ativos

\* ---------------------------------------------------------------------------
\* The critical-items area of the timeline tab
\* ---------------------------------------------------------------------------
critical_statuses == <<TimelineVencido, TimelineCritico, TimelineAtencao>>

\* list.remove(x): the list without the first x
RECURSIVE ListRemove(_, _)
ListRemove(l, x) ==
    IF l = <<>> THEN <<>>
    ELSE IF Head(l) = x THEN Tail(l)
    ELSE <<Head(l)>> \o ListRemove(Tail(l), x)

\* x in list
InList(x, l) == \E k \in 1..Len(l) : l[k] = x

\* the card button that leaves the view expanded when the last status goes
AlternarStatus_SemRecolher(selected, expanded, status) ==
    IF InList(status, selected)
    THEN [critical_selected_kpis |-> ListRemove(selected, status),
          critical_items_expanded |-> expanded]
    ELSE [critical_selected_kpis |-> Append(selected, status),
          critical_items_expanded |-> TRUE]

\* The button of a status card: a selected status is removed, and the view
\* collapses if no status remains; a status not selected is appended and the
\* view expands.
AlternarStatus(selected, expanded, status) ==
    IF InList(status, selected)
    THEN LET resto == ListRemove(selected, status)
         IN  [critical_selected_kpis |-> resto,
              critical_items_expanded |-> IF resto = <<>> THEN FALSE ELSE expanded]
    ELSE [critical_selected_kpis |-> Append(selected, status),
          critical_items_expanded |-> TRUE]

\* the rows of the expanded view in the run after a click: none while the
\* view is collapsed, the rows of the selected statuses, or every row when
\* no status is selected
CriticalDisplay(items, selected, expanded) ==
    IF ~expanded THEN <<>>
    ELSE IF selected # <<>>
    THEN SelectSeq(items, LAMBDA r : InList(r.Status, selected))
    ELSE items

MaxItensCriticos == 2

ItensCriticos ==
    { [Lote |-> "L1", Status |-> TimelineVencido],
      [Lote |-> "L2", Status |-> TimelineCritico],
      [Lote |-> "L3", Status |-> TimelineAtencao] }

\* the first run of the timeline tab: view collapsed, nothing selected
InitCriticos ==
    /\ kpc = "inicio"
    /\ critical_selected_kpis = <<>>
    /\ critical_items_expanded = FALSE
    /\ df_critical_items \in SeqAte(ItensCriticos, MaxItensCriticos)
    /\ df_critical_display = <<>>
    /\ ScriptParado /\ CargaParada /\ ParserParado /\ TimelineParada /\ FiltrosParados
    /\ BloqueioParado /\ LimpezaParada /\ AtualizarParado

\* "Ver Vencidos", "Ver Criticos", "Ver Atencao" and the st.rerun() after it
ClicarCartao ==
    \E k \in 1..Len(critical_statuses) :
        LET r == AlternarStatus(critical_selected_kpis, critical_items_expanded,
                                critical_statuses[k])
        IN  /\ critical_selected_kpis' = r.critical_selected_kpis
            /\ critical_items_expanded' = r.critical_items_expanded
            /\ df_critical_display' =
                   CriticalDisplay(df_critical_items, r.critical_selected_kpis,
                                   r.critical_items_expanded)
            /\ kpc' = "cartao"
            /\ UNCHANGED df_critical_items
            /\ UNCHANGED <<varsScript, varsCarga, varsParser, varsTimeline, varsFiltros,
                           varsBloqueio, varsLimpeza, varsAtualizar>>

\* "Expandir Visualizacao" / "Recolher Visualizacao" and the st.rerun()
ClicarExpandir ==
    /\ critical_items_expanded' = ~critical_items_expanded
    /\ critical_selected_kpis' =
           IF ~critical_items_expanded' THEN <<>> ELSE critical_selected_kpis
    /\ df_critical_display' =
           CriticalDisplay(df_critical_items, critical_selected_kpis',
                           critical_items_expanded')
    /\ kpc' = "expandir"
    /\ UNCHANGED df_critical_items
    /\ UNCHANGED <<varsScript, varsCarga, varsParser, varsTimeline, varsFiltros,
                   varsBloqueio, varsLimpeza, varsAtualizar>>

\* "Limpar Selecao de Status", shown in the expanded view while a status is
\* selected, and the st.rerun()
ClicarLimparSelecao ==
    /\ critical_items_expanded
    /\ critical_selected_kpis # <<>>
    /\ critical_selected_kpis' = <<>>
    /\ df_critical_display' =
           CriticalDisplay(df_critical_items, <<>>, critical_items_expanded)
    /\ kpc' = "limpar"
    /\ UNCHANGED <<critical_items_expanded, df_critical_items>>
    /\ UNCHANGED <<varsScript, varsCarga, varsParser, varsTimeline, varsFiltros,
                   varsBloqueio, varsLimpeza, varsAtualizar>>

NextCriticos ==
    \/ ClicarCartao
    \/ ClicarExpandir
    \/ ClicarLimparSelecao

SpecCriticos == InitCriticos /\ [][NextCriticos]_vars

\* C29: the selection never holds a status twice; a status is selected only
\* while the view is expanded, so a collapsed view has an empty selection;
\* and a card click that leaves no status selected leaves the view collapsed.
C29_CriticalSelectionConsistent ==
    /\ \A i, j \in 1..Len(critical_selected_kpis) :
           critical_selected_kpis[i] = critical_selected_kpis[j] => i = j
    /\ critical_selected_kpis # <<>> => critical_items_expanded
    /\ ~critical_items_expanded => critical_selected_kpis = <<>>
    /\ (kpc = "cartao" /\ critical_selected_kpis = <<>>) => ~critical_items_expanded

\* the last selected status was just removed by its card: the view is
\* collapsed and shows no row
C29_Witness ==
    /\ kpc = "cartao"
    /\ critical_selected_kpis = <<>>
    /\ ~critical_items_expanded
    /\ df_critical_items # <<>>
    /\ df_critical_display = <<>>

\* ---------------------------------------------------------------------------
\* The main flow of Atualizar.py
\* ---------------------------------------------------------------------------
max_tentativas == 3

\* what fechar_arquivo_excel can return: True when Excel is not running or
\* the workbook was found and closed, False when the workbook was not among
\* the open ones or the COM call raised
ResultadosDeFechar == BOOLEAN

\* the end of an attempt that forces Excel to close one attempt early
FimDaTentativa_ForcaAntes(t, mb51_fechado, sq00_fechado, venc_fechado) ==
    IF mb51_fechado /\ sq00_fechado /\ venc_fechado
    THEN [sair |-> TRUE, forcar |-> FALSE]
    ELSE IF t = max_tentativas - 1
    THEN [sair |-> TRUE, forcar |-> TRUE]
    ELSE [sair |-> FALSE, forcar |-> FALSE]

\* the end of the attempt t of the close loop: break when the three files are
\* closed; on the last attempt forcar_fechar_excel() and break; otherwise wait
\* and try again
FimDaTentativa(t, mb51_fechado, sq00_fechado, venc_fechado) ==
    IF mb51_fechado /\ sq00_fechado /\ venc_fechado
    THEN [sair |-> TRUE, forcar |-> FALSE]
    ELSE IF t = max_tentativas
    THEN [sair |-> TRUE, forcar |-> TRUE]
    ELSE [sair |-> FALSE, forcar |-> FALSE]

InitAtualizar ==
    /\ apc = "inicio"
    /\ session = FALSE
    /\ tentativa = 0
    /\ fechados = <<>>
    /\ chamadas = <<>>
    /\ ScriptParado /\ CargaParada /\ ParserParado /\ TimelineParada /\ FiltrosParados
    /\ BloqueioParado /\ LimpezaParada /\ CriticosParados

\* verificar_e_fechar_sap(), abrir_sap_e_fazer_logon(), which returns the
\* session or None, and with a session the three exports; then tentativa = 1.
\* Without a session the flow prints the failure and ends.
AbrirSapEExportar ==
    /\ apc = "inicio"
    /\ \E obtida \in BOOLEAN :
           /\ session' = obtida
           /\ IF obtida
              THEN /\ chamadas' = <<"verificar_e_fechar_sap", "abrir_sap_e_fazer_logon",
                                    "executar_mb51", "executar_sq00",
                                    "executar_sq00_venc">>
                   /\ tentativa' = 1
                   /\ apc' = "fechando"
              ELSE /\ chamadas' = <<"verificar_e_fechar_sap", "abrir_sap_e_fazer_logon">>
                   /\ tentativa' = tentativa
                   /\ apc' = "fim"
    /\ UNCHANGED fechados
    /\ UNCHANGED <<varsScript, varsCarga, varsParser, varsTimeline, varsFiltros,
                   varsBloqueio, varsLimpeza, varsCriticos>>

\* One pass of the while loop. The loop condition tentativa <= max_tentativas
\* holds at every pass: tentativa grows only on an attempt before the last.
TentarFecharExcel ==
    /\ apc = "fechando"
    /\ tentativa <= max_tentativas
    /\ \E mb51_fechado \in ResultadosDeFechar, sq00_fechado \in ResultadosDeFechar,
          venc_fechado \in ResultadosDeFechar :
           LET fim == FimDaTentativa(tentativa, mb51_fechado, sq00_fechado, venc_fechado)
               fechar == <<"fechar_mb51", "fechar_sq00", "fechar_venc">>
           IN  /\ fechados' = Append(fechados, <<mb51_fechado, sq00_fechado, venc_fechado>>)
               /\ chamadas' = chamadas \o fechar
                                  \o (IF fim.forcar THEN <<"forcar_fechar_excel">> ELSE <<>>)
               /\ tentativa' = IF fim.sair THEN tentativa ELSE tentativa + 1
               /\ apc' = IF fim.sair THEN "tratando" ELSE "fechando"
    /\ UNCHANGED session
    /\ UNCHANGED <<varsScript, varsCarga, varsParser, varsTimeline, varsFiltros,
                   varsBloqueio, varsLimpeza, varsCriticos>>

\* after the loop: the three waits, whose results only print a warning, and
\* the three treatments
TratarPlanilhas ==
    /\ apc = "tratando"
    /\ chamadas' = chamadas \o <<"aguardar_arquivo_disponivel",
                                 "aguardar_arquivo_disponivel",
                                 "aguardar_arquivo_disponivel",
                                 "tratar_planilha_mb51", "tratar_planilha_sq00",
                                 "tratar_planilha_venc">>
    /\ apc' = "fim"
    /\ UNCHANGED <<session, tentativa, fechados>>
    /\ UNCHANGED <<varsScript, varsCarga, varsParser, varsTimeline, varsFiltros,
                   varsBloqueio, varsLimpeza, varsCriticos>>

NextAtualizar ==
    \/ AbrirSapEExportar
    \/ TentarFecharExcel
    \/ TratarPlanilhas

\* the flow is one sequential program: a step that can run does run
SpecAtualizar == InitAtualizar /\ [][NextAtualizar]_vars /\ WF_vars(NextAtualizar)

\* the three files closed in an attempt
TodosFechados(f) == f[1] /\ f[2] /\ f[3]

\* how often the step s was called
Chamadas(s) == Cardinality({k \in 1..Len(chamadas) : chamadas[k] = s})

\* the steps that need a session
PassosComSessao ==
    {"executar_mb51", "executar_sq00", "executar_sq00_venc", "fechar_mb51",
     "fechar_sq00", "fechar_venc", "forcar_fechar_excel",
     "aguardar_arquivo_disponivel", "tratar_planilha_mb51",
     "tratar_planilha_sq00", "tratar_planilha_venc"}

\* what holds of the flow in every state
AtualizarSeguro ==
    /\ Len(fechados) <= max_tentativas
    /\ Chamadas("fechar_mb51") = Len(fechados)
    /\ \A k \in 1..(Len(fechados) - 1) : ~TodosFechados(fechados[k])
    /\ (apc = "fechando") => \A k \in 1..Len(fechados) : ~TodosFechados(fechados[k])
    /\ Chamadas("forcar_fechar_excel") =
           (IF Len(fechados) = max_tentativas /\ ~TodosFechados(fechados[max_tentativas])
            THEN 1 ELSE 0)
    /\ (apc \in {"tratando", "fim"} /\ session) =>
           /\ fechados # <<>>
           /\ \/ TodosFechados(fechados[Len(fechados)])
              \/ Len(fechados) = max_tentativas
    /\ (apc = "fim" /\ session) =>
           SubSeq(chamadas, Len(chamadas) - 2, Len(chamadas))
               = <<"tratar_planilha_mb51", "tratar_planilha_sq00", "tratar_planilha_venc">>
    /\ (apc # "fim") => Chamadas("tratar_planilha_mb51") = 0
    /\ (apc # "inicio" /\ ~session) =>
           /\ apc = "fim"
           /\ \A k \in 1..Len(chamadas) : chamadas[k] \notin PassosComSessao

\* C30: with a session the close loop makes at most 3 attempts, stops at the
\* first attempt that closes the three files, calls forcar_fechar_excel
\* exactly when the third attempt still has a failure, and the flow always
\* reaches its end, with the three treatments run after the loop; without a
\* session no export, close or treatment step runs.
C30_CloseLoopBoundedAndTerminates ==
    /\ []AtualizarSeguro
    /\ <>(apc = "fim")

\* the flow ended after three failed attempts: Excel was forced to close
\* once, after the third attempt, and the treatments ran
C30_Witness ==
    /\ apc = "fim"
    /\ session
    /\ Len(fechados) = 3
    /\ ~TodosFechados(fechados[3])
    /\ Chamadas("forcar_fechar_excel") = 1
    /\ chamadas[Len(chamadas)] = "tratar_planilha_venc"

====
